---------------------------- MODULE Spec2Model ----------------------------
(***************************************************************************)
(* Model of libraries/SITL/SIM_Sailboat.cpp, the sailboat force-and-motion *)
(* model of the SITL simulator.  The file holds two versions of the class: *)
(* the torque-integrated heel version (lines 1-447, variant "torque") and  *)
(* the direct heel angle version (lines 449-822, variant "direct").        *)
(*                                                                         *)
(* Numbers.  A C float x is modelled by the integer nearest to x * 1000    *)
(* (three decimal places, "milli"): metres are millimetres, degrees are    *)
(* millidegrees, radians are milliradians, coefficients are thousandths.   *)
(* Products and quotients are rescaled by FMul and FDiv.  Servo outputs,   *)
(* frame_time_us and enum values are plain integers, as in the source.     *)
(*                                                                         *)
(* The module also models libraries/AP_Mount/AP_Mount.cpp, the front end   *)
(* of the camera mounts: init, the MAVLink command handlers and the        *)
(* pre-arm check.  Enumerators of headers (mount types, MAV_RESULT, mount  *)
(* modes) are modelled by their names.                                     *)
(***************************************************************************)
EXTENDS Integers, Sequences, FiniteSets, TLC

VARIABLES
    variant,            \* which version of the file is compiled
    boats,              \* the Sailboat instances: the members update() touches
    update_time_s,      \* namespace-scope float, SIM_Sailboat.cpp:287
    last_print_time_s,  \* namespace-scope float, SIM_Sailboat.cpp:286
    armed,              \* hal.util->get_soft_armed()
    sitl,               \* the SITL parameter block (wave.*, tide.*, sail_type)
    call,               \* the most recent call: who, with what input, its locals
    nsteps,             \* number of update() calls made so far
    trace,              \* per instance, the inputs its update() calls were given
    mount,              \* the AP_Mount singleton: _params, _backends,
                        \* _num_instances, _primary
    mount_build,        \* the HAL_*_ENABLED options AP_Mount.cpp is compiled with
    mount_inits         \* number of AP_Mount::init() calls made so far

mount_vars == <<mount, mount_build, mount_inits>>

vars == <<variant, boats, update_time_s, last_print_time_s, armed, sitl, call,
          nsteps, trace, mount_vars>>

-----------------------------------------------------------------------------
(* Fixed-point arithmetic standing for float arithmetic.  An operator that *)
(* uses an argument more than once binds it first (x \in {a}), so that the *)
(* argument is evaluated once, as a C argument is.                         *)

The(S) == CHOOSE e \in S : TRUE

Abs(a) == The({ IF x < 0 THEN -x ELSE x : x \in {a} })

MAX(a, b) == The({ IF x > y THEN x ELSE y : x \in {a}, y \in {b} })

\* C division of integers: truncation toward zero
Quot(a, b) ==
    The({ IF x >= 0
          THEN (IF y > 0 THEN x \div y ELSE -(x \div (-y)))
          ELSE (IF y > 0 THEN -((-x) \div y) ELSE (-x) \div (-y))
          : x \in {a}, y \in {b} })

Rem(a, b) == The({ x - y * Quot(x, y) : x \in {a}, y \in {b} })

\* the largest magnitude a quotient can take: stands for +-inf of a float
FInf == 1000 * 1000 * 1000

\* a * b of two milli numbers, in milli; the larger factor is split so that
\* the intermediate product stays in range
FMul(a, b) ==
    The({ IF Abs(x) >= Abs(y)
          THEN Quot(x, 1000) * y + Quot(Rem(x, 1000) * y, 1000)
          ELSE Quot(y, 1000) * x + Quot(Rem(y, 1000) * x, 1000)
          : x \in {a}, y \in {b} })

\* a / b of two milli numbers, in milli; x/0 is +-inf, 0/0 is taken as 0
FDiv(a, b) ==
    The({ IF y = 0
          THEN (IF x = 0 THEN 0 ELSE IF x > 0 THEN FInf ELSE -FInf)
          ELSE Quot(x, y) * 1000 + Quot(Rem(x, y) * 1000, y)
          : x \in {a}, y \in {b} })

sq(a) == The({ FMul(x, x) : x \in {a} })

\* M_PI and M_2PI in milliradians
M_PI == 3142
M_2PI == 6283
M_PI_2 == M_PI \div 2

\* AP_Math is_zero(): |x| < FLT_EPSILON; no nonzero milli number is that small
is_zero(x) == x = 0

is_negative(x) == x < 0

\* sign of x as -1, 0 or +1
signum(a) == The({ IF x < 0 THEN -1 ELSE IF x > 0 THEN 1 ELSE 0 : x \in {a} })

constrain_float(a, lo, hi) ==
    The({ IF x < lo THEN lo ELSE IF x > hi THEN hi ELSE x : x \in {a} })

constrain_int16(a, lo, hi) ==
    The({ IF x < lo THEN lo ELSE IF x > hi THEN hi ELSE x : x \in {a} })

\* radians(deg) = deg * pi / 180 and degrees(rad) = rad * 180 / pi
radians(d) ==
    Quot(d, 180 * 1000) * M_PI + Quot(Rem(d, 180 * 1000) * M_PI, 180 * 1000)

degrees(r) ==
    The({ Quot(x * 180, M_PI) * 1000 + Quot(Rem(x * 180, M_PI) * 1000, M_PI)
          : x \in {r} })

\* fmodf(x, m): the remainder with the sign of x
fmodf(x, m) == Rem(x, m)

\* AP_Math wrap_360 / wrap_180 on degrees: wrap_180 yields (-180, 180]
wrap_360(d) ==
    The({ IF res < 0 THEN res + 360 * 1000 ELSE res : res \in {fmodf(d, 360 * 1000)} })

wrap_180(d) ==
    The({ IF res > 180 * 1000 THEN res - 360 * 1000 ELSE res : res \in {wrap_360(d)} })

\* AP_Math wrap_2PI / wrap_PI on radians
wrap_2PI(r) ==
    The({ IF res < 0 THEN res + M_2PI ELSE res : res \in {fmodf(r, M_2PI)} })

wrap_PI(r) ==
    The({ IF res > M_PI THEN res - M_2PI ELSE res : res \in {wrap_2PI(r)} })

\* the odd powers x^3, x^5, x^7 of a milli number
OddPowers(a) ==
    The({ The({ The({ <<x3, x5, Quot(x5 * x2, 1000)>>
                      : x5 \in {Quot(x3 * x2, 1000)} })
                : x3 \in {Quot(x2 * x, 1000)} })
          : x \in {a}, x2 \in {Quot(a * a, 1000)} })

\* sinf on [-pi/2, pi/2]: the series x - x^3/3! + x^5/5! - x^7/7!
SinSeries(a) ==
    The({ constrain_float(a - Quot(p[1], 6) + Quot(p[2], 120) - Quot(p[3], 5040),
                          -1000, 1000)
          : p \in {OddPowers(a)} })

sinf(r) ==
    The({ IF x > M_PI_2 THEN SinSeries(M_PI - x)
          ELSE IF x < -M_PI_2 THEN SinSeries(-M_PI - x)
          ELSE SinSeries(x)
          : x \in {wrap_PI(r)} })

cosf(r) == sinf(r + M_PI_2)

\* atanf on [-tan(pi/8), tan(pi/8)]: the series x - x^3/3 + x^5/5 - x^7/7
AtanSeries(a) ==
    The({ x - Quot(p[1], 3) + Quot(p[2], 5) - Quot(p[3], 7)
          : x \in {a}, p \in {OddPowers(a)} })

AtanPos(a) ==
    The({ IF x <= 414 THEN AtanSeries(x)
          ELSE IF x <= 2414 THEN Quot(M_PI, 4) + AtanSeries(FDiv(x - 1000, x + 1000))
          ELSE M_PI_2 - AtanSeries(FDiv(1000, x))
          : x \in {a} })

atanf(a) == The({ IF x < 0 THEN -AtanPos(-x) ELSE AtanPos(x) : x \in {a} })

atan2f(b, a) ==
    The({ IF x > 0 THEN atanf(FDiv(y, x))
          ELSE IF x < 0 THEN (IF y >= 0 THEN atanf(FDiv(y, x)) + M_PI
                              ELSE atanf(FDiv(y, x)) - M_PI)
          ELSE IF y > 0 THEN M_PI_2 ELSE IF y < 0 THEN -M_PI_2 ELSE 0
          : y \in {b}, x \in {a} })

\* integer square root by bisection: the r with r*r <= n < (r+1)*(r+1)
RECURSIVE SqrtBisect(_, _, _)
SqrtBisect(n, lo, hi) ==
    IF hi - lo <= 1 THEN lo
    ELSE The({ IF mid * mid <= n THEN SqrtBisect(n, mid, hi) ELSE SqrtBisect(n, lo, mid)
               : mid \in {(lo + hi) \div 2} })

\* AP_Math safe_sqrt of a milli number, in milli: sqrt(x/1000)*1000 = sqrt(x*1000)
safe_sqrt(a) ==
    The({ IF x <= 0 THEN 0
          ELSE IF x < 2000 * 1000 THEN The({ SqrtBisect(n, 0, 46340) : n \in {x * 1000} })
          ELSE 10 * The({ SqrtBisect(n, 0, 46340) : n \in {x * 10} })
          : x \in {a} })

-----------------------------------------------------------------------------
(* Vector3f, and the attitude collaborator (Matrix3f dcm).  The attitude   *)
(* is held as its Euler angles; rotate() adds the rotation vector to them. *)

Vec(x, y, z) == [x |-> x, y |-> y, z |-> z]

VZero == Vec(0, 0, 0)

VAdd(a, b) == The({ Vec(u.x + w.x, u.y + w.y, u.z + w.z) : u \in {a}, w \in {b} })

VSub(a, b) == The({ Vec(u.x - w.x, u.y - w.y, u.z - w.z) : u \in {a}, w \in {b} })

\* Vector3f * float
VScale(a, k) ==
    The({ Vec(FMul(u.x, c), FMul(u.y, c), FMul(u.z, c)) : u \in {a}, c \in {k} })

\* Vector3f / float
VDivide(a, k) ==
    The({ Vec(FDiv(u.x, c), FDiv(u.y, c), FDiv(u.z, c)) : u \in {a}, c \in {k} })

Euler(r, p, y) == [roll |-> r, pitch |-> p, yaw |-> y]

\* Matrix3f::from_euler followed by normalize(): angles are kept in (-pi, pi]
from_euler(r, p, y) == Euler(wrap_PI(r), wrap_PI(p), wrap_PI(y))

\* Matrix3f::to_euler
to_euler(dcm) == dcm

\* Matrix3f::rotate(g) followed by normalize()
rotate(dcm, g) ==
    The({ from_euler(d.roll + w.x, d.pitch + w.y, d.yaw + w.z) : d \in {dcm}, w \in {g} })

\* the rows of the body-to-earth rotation matrix of the attitude
DcmRows(dcm) ==
    The({ << Vec(FMul(cp, cy), FMul(FMul(sr, sp), cy) - FMul(cr, sy),
                                FMul(FMul(cr, sp), cy) + FMul(sr, sy)),
             Vec(FMul(cp, sy), FMul(FMul(sr, sp), sy) + FMul(cr, cy),
                                FMul(FMul(cr, sp), sy) - FMul(sr, cy)),
             Vec(-sp, FMul(sr, cp), FMul(cr, cp)) >>
          : sr \in {sinf(dcm.roll)},  cr \in {cosf(dcm.roll)},
            sp \in {sinf(dcm.pitch)}, cp \in {cosf(dcm.pitch)},
            sy \in {sinf(dcm.yaw)},   cy \in {cosf(dcm.yaw)} })

\* Matrix3f * Vector3f: body frame to earth frame
dcm_mul(dcm, a) ==
    The({ Vec(FMul(m[1].x, v.x) + FMul(m[1].y, v.y) + FMul(m[1].z, v.z),
              FMul(m[2].x, v.x) + FMul(m[2].y, v.y) + FMul(m[2].z, v.z),
              FMul(m[3].x, v.x) + FMul(m[3].y, v.y) + FMul(m[3].z, v.z))
          : m \in {DcmRows(dcm)}, v \in {a} })

\* Matrix3f::mul_transpose, and transposed() * v: earth frame to body frame
mul_transpose(dcm, a) ==
    The({ Vec(FMul(m[1].x, v.x) + FMul(m[2].x, v.y) + FMul(m[3].x, v.z),
              FMul(m[1].y, v.x) + FMul(m[2].y, v.y) + FMul(m[3].y, v.z),
              FMul(m[1].z, v.x) + FMul(m[2].z, v.y) + FMul(m[3].z, v.z))
          : m \in {DcmRows(dcm)}, v \in {a} })

-----------------------------------------------------------------------------
(* Constants of SIM_Sailboat.cpp.                                          *)

STEERING_SERVO_CH == 0
MAINSAIL_SERVO_CH == 3
THROTTLE_SERVO_CH == 2
DIRECT_WING_SERVO_CH == 4

WAVE_ANGLE_GAIN == 1
WAVE_HEAVE_GAIN == 1

\* Sail_type: the values of the sail type parameter
mainsail_with_sheet == 0
directly_actuated_wing == 1

\* constructor: steering_angle_max(35), turning_circle(1.8)
steering_angle_max == 35000
turning_circle == 1800

\* constructor: sail_area(1.5) in the torque version, sail_area(1.0) in the other
sail_area(v) == IF v = "torque" THEN 1500 ELSE 1000

\* mass in kg: Aircraft::mass = 4.0 in the torque version's constructor; the
\* other version uses the member declared in SIM_Sailboat.h (2.0)
mass(v) == IF v = "torque" THEN 4000 ELSE 2000

GRAVITY_MSS == 9807

\* input.servos[ch]: channels are numbered from 0, sequences from 1
Servo(input, ch) == input.servos[ch + 1]

\* vector of { angle in degrees, CL }
CL_curve ==
    << <<0, 0>>, <<10000, 500>>, <<20000, 1000>>, <<30000, 1100>>,
       <<40000, 950>>, <<50000, 750>>, <<60000, 600>>, <<70000, 400>>,
       <<80000, 200>>, <<90000, 0>>, <<100000, -200>>, <<110000, -400>>,
       <<120000, -600>>, <<130000, -750>>, <<140000, -950>>, <<150000, -1100>>,
       <<160000, -1000>>, <<170000, -500>> >>

\* vector of { angle in degrees, CD }
CD_curve ==
    << <<0, 100>>, <<10000, 100>>, <<20000, 200>>, <<30000, 400>>,
       <<40000, 800>>, <<50000, 1200>>, <<60000, 1500>>, <<70000, 1700>>,
       <<80000, 1900>>, <<90000, 1950>>, <<100000, 1900>>, <<110000, 1700>>,
       <<120000, 1500>>, <<130000, 1200>>, <<140000, 800>>, <<150000, 400>>,
       <<160000, 200>>, <<170000, 100>> >>

ARRAY_SIZE(t) == Len(t)

\* index of the last breakpoint at or below x (x is at or above the first)
RECURSIVE Bracket(_, _, _)
Bracket(x, table, i) ==
    IF i >= Len(table) THEN Len(table)
    ELSE IF x < table[i + 1][1] THEN i ELSE Bracket(x, table, i + 1)

\* AP_Math linear_interpolate(x, table, size): piecewise linear between the two
\* bracketing breakpoints, the first value below the first breakpoint, the last
\* value at or above the last breakpoint
linear_interpolate(a, table, size) ==
    The({ IF x <= table[1][1] THEN table[1][2]
          ELSE IF x >= table[size][1] THEN table[size][2]
          ELSE The({ table[i][2]
                     + Quot((table[i + 1][2] - table[i][2]) * (x - table[i][1]),
                            table[i + 1][1] - table[i][1])
                     : i \in {Bracket(x, table, 1)} })
          : x \in {a} })

-----------------------------------------------------------------------------
(* The member functions of Sailboat.                                       *)

\* calc_lift_and_drag without the conversion of the angle
signed_aoa_deg_unwrapped(angle_of_attack_deg) == angle_of_attack_deg

\* calc_lift_and_drag: the angle converted to the range of the curves
signed_aoa_deg(angle_of_attack_deg) == wrap_180(angle_of_attack_deg)

\* calc_lift_and_drag: the lookup that stops one breakpoint early
cl_lookup_short(abs_aoa_deg) ==
    linear_interpolate(abs_aoa_deg, CL_curve, ARRAY_SIZE(CL_curve) - 1)

\* calc_lift_and_drag: cl and cd looked up in the curves
cl_lookup(abs_aoa_deg) ==
    linear_interpolate(abs_aoa_deg, CL_curve, ARRAY_SIZE(CL_curve))

cd_lookup(abs_aoa_deg) ==
    linear_interpolate(abs_aoa_deg, CD_curve, ARRAY_SIZE(CD_curve))

\* calc_lift_and_drag with the wind speed kept at 1 m/s or above
common_coefficient_min_wind(v, wind_speed) ==
    IF v = "torque"
    THEN FMul(FMul(FMul(FDiv(1000, 2000), 1225), sq(MAX(wind_speed, 1000))), sail_area(v))
    ELSE FMul(sq(MAX(wind_speed, 1000)), sail_area(v))

\* calc_lift_and_drag: the factor common to the lift and the drag equation
common_coefficient(v, wind_speed) ==
    IF v = "torque"
    THEN FMul(FMul(FMul(FDiv(1000, 2000), 1225), sq(wind_speed)), sail_area(v))
    ELSE FMul(sq(wind_speed), sail_area(v))

\* calc_lift_and_drag(wind_speed, angle_of_attack_deg, lift, drag): the two
\* outputs together with the locals they are computed from
calc_lift_and_drag(v, wind_speed, angle_of_attack_deg) ==
    The({ The({ [signed_aoa_deg |-> signed, abs_aoa_deg |-> abs_aoa,
                 cl |-> cl, cd |-> cd, common_coefficient |-> k,
                 sign |-> signum(signed),
                 drag |-> FMul(cd, k),
                 lift |-> FMul(cl, k) * signum(signed)]
                : cl \in {cl_lookup(abs_aoa)},
                  cd \in {cd_lookup(abs_aoa)},
                  k  \in {common_coefficient(v, wind_speed)} })
          : signed  \in {signed_aoa_deg(angle_of_attack_deg)},
            abs_aoa \in {Abs(signed_aoa_deg(angle_of_attack_deg))} })

\* get_turn_circle(steering): the value returned and the divisors of the
\* divisions evaluated on the way
get_turn_circle(steering) ==
    IF is_zero(steering)
    THEN [ret |-> 0, divs |-> <<>>]
    ELSE The({ [ret  |-> FDiv(FMul(turning_circle, sinf(radians(steering_angle_max))),
                              den),
                divs |-> <<den>>]
               : den \in {sinf(radians(FMul(steering, steering_angle_max)))} })

\* get_yaw_rate without the test of the speed
get_yaw_rate_unguarded(steering, speed) ==
    IF is_zero(steering)
    THEN [ret |-> 0, divs |-> <<>>]
    ELSE The({ The({ [ret  |-> FDiv(360 * 1000, t_s),
                      divs |-> tc.divs \o <<speed, t_s>>]
                     : t_s \in {FDiv(FMul(M_PI, tc.ret), speed)} })
               : tc \in {get_turn_circle(steering)} })

\* get_yaw_rate(steering, speed) in deg/sec, with the divisors as above
get_yaw_rate(steering, speed) ==
    IF is_zero(steering) \/ is_zero(speed)
    THEN [ret |-> 0, divs |-> <<>>]
    ELSE The({ The({ [ret  |-> FDiv(360 * 1000, t_s),
                      divs |-> tc.divs \o <<speed, t_s>>]
                     : t_s \in {FDiv(FMul(M_PI, tc.ret), speed)} })
               : tc \in {get_turn_circle(steering)} })

\* get_lat_accel(steering, speed)
get_lat_accel(steering, speed) ==
    FMul(radians(get_yaw_rate(steering, speed).ret), speed)

\* update_wave: the phase moved on without wrapping
wave_phase_advance_unwrapped(wave_phase, apparent_wave_phase_change) ==
    wave_phase + apparent_wave_phase_change

\* update_wave: wave_phase += apparent_wave_phase_change, then wrapped
wave_phase_advance(wave_phase, apparent_wave_phase_change) ==
    wrap_2PI(wave_phase + apparent_wave_phase_change)

\* update_wave: the disabled branch that leaves wave_gyro as it was
update_wave_disabled_keeps_gyro(b) ==
    [b EXCEPT !.wave_heave = -b.velocity_ef.z * WAVE_HEAVE_GAIN,
              !.wave_phase = 0]


\* update_wave: the disabled branch with the yaw angle fed back like roll and
\* pitch
update_wave_disabled_yaw_fed_back(b) ==
    [b EXCEPT !.wave_gyro  = Vec(-to_euler(b.dcm).roll * WAVE_ANGLE_GAIN,
                                 -to_euler(b.dcm).pitch * WAVE_ANGLE_GAIN,
                                 -to_euler(b.dcm).yaw * WAVE_ANGLE_GAIN),
              !.wave_heave = -b.velocity_ef.z * WAVE_HEAVE_GAIN,
              !.wave_phase = 0]

\* update_wave: the branch taken when waves are off, the vehicle is not armed
\* or the amplitude is zero
update_wave_disabled(b) ==
    [b EXCEPT !.wave_gyro  = Vec(-to_euler(b.dcm).roll * WAVE_ANGLE_GAIN,
                                 -to_euler(b.dcm).pitch * WAVE_ANGLE_GAIN,
                                 0 * WAVE_ANGLE_GAIN),
              !.wave_heave = -b.velocity_ef.z * WAVE_HEAVE_GAIN,
              !.wave_phase = 0]

\* update_wave: the sailboat speed in the direction of the wave
wave_boat_speed(b, wave_heading) ==
    FMul(b.velocity_ef.x, sinf(radians(wave_heading)))
    + FMul(b.velocity_ef.y, cosf(radians(wave_heading)))

\* update_wave: the branch that moves the wave on
update_wave_enabled(b, s, delta_time) ==
    The({ The({ The({ [b EXCEPT
                         !.wave_phase = phase,
                         !.wave_gyro  =
                             Vec((FMul(sinf(s.wave.direction - to_euler(b.dcm).yaw),
                                       wave_angle) - to_euler(b.dcm).roll)
                                 * WAVE_ANGLE_GAIN,
                                 (FMul(cosf(s.wave.direction - to_euler(b.dcm).yaw),
                                       wave_angle) - to_euler(b.dcm).pitch)
                                 * WAVE_ANGLE_GAIN,
                                 0),
                         !.wave_heave =
                             IF s.wave.enable = 2
                             THEN (wave_slope - b.velocity_ef.z) * WAVE_HEAVE_GAIN
                             ELSE 0]
                      : wave_angle \in {atanf(wave_slope)} })
                : wave_slope \in {FMul(FMul(FMul(s.wave.amp, 500),
                                            FDiv(M_2PI, s.wave.length)),
                                       cosf(phase))} })
          : phase \in {wave_phase_advance(
                          b.wave_phase,
                          FMul(FDiv(FMul(s.wave.speed - wave_boat_speed(b, s.wave.direction),
                                         delta_time),
                                    s.wave.length),
                               M_2PI))} })

\* update_wave without the test of the armed state
update_wave_armed_unchecked(b, s, a, delta_time) ==
    IF s.wave.enable = 0 \/ is_zero(s.wave.amp)
    THEN update_wave_disabled(b)
    ELSE update_wave_enabled(b, s, delta_time)

\* update_wave(delta_time) on the instance b, with the parameters s and the
\* armed state a: the instance afterwards
update_wave(b, s, a, delta_time) ==
    IF s.wave.enable = 0 \/ ~a \/ is_zero(s.wave.amp)
    THEN update_wave_disabled(b)
    ELSE update_wave_enabled(b, s, delta_time)

\* get_heel_angular_acceleration: resultant / moment_of_inertia with
\* vertical_ce 200, keel_mass 2.5, keel_depth 0.5, keel_chord 0.1, g 1,
\* kDamping 1 and kMomentOfInertia 300
heel_moments(force_heel, roll_angle, roll_rate) ==
    FDiv(FMul(FMul(force_heel, 200 * 1000), cosf(roll_angle))
         + FMul(FMul(FMul(FMul(-1000, 2500), 1000), 500), sinf(roll_angle))
         + FMul(FMul(FMul(FMul(-1000, sq(500)), 100), roll_rate), 1000),
         FMul(FMul(2500, sq(500)), 300 * 1000))

\* get_heel_angular_acceleration without the test of the armed state
get_heel_angular_acceleration_always(a, force_heel, current_roll_angle_bf_rad, current_roll_rate_rad_per_s) ==
    heel_moments(force_heel, current_roll_angle_bf_rad, current_roll_rate_rad_per_s)

\* get_heel_angular_acceleration(force_heel, roll angle, roll rate) in rad.s-2,
\* with a the armed state
get_heel_angular_acceleration(a, force_heel, current_roll_angle_bf_rad, current_roll_rate_rad_per_s) ==
    IF ~a THEN 0
    ELSE heel_moments(force_heel, current_roll_angle_bf_rad, current_roll_rate_rad_per_s)

\* get_mainsail_angle_bf without constrain_float
get_mainsail_angle_bf_unclamped(sail_type, input) ==
    IF sail_type = directly_actuated_wing
    THEN FMul(FDiv((Servo(input, DIRECT_WING_SERVO_CH) - 1500) * 1000, 500 * 1000),
              90 * 1000)
    ELSE FMul(FDiv((Servo(input, MAINSAIL_SERVO_CH) - 1000) * 1000, 1000 * 1000),
              90 * 1000)

\* get_mainsail_angle_bf(input): mainsail angle in body frame degrees
get_mainsail_angle_bf(sail_type, input) ==
    IF sail_type = directly_actuated_wing
    THEN constrain_float(FMul(FDiv((Servo(input, DIRECT_WING_SERVO_CH) - 1500) * 1000,
                                   500 * 1000), 90 * 1000), -90 * 1000, 90 * 1000)
    ELSE constrain_float(FMul(FDiv((Servo(input, MAINSAIL_SERVO_CH) - 1000) * 1000,
                                   1000 * 1000), 90 * 1000), 0, 90 * 1000)

\* the other version's update(): wing_angle_bf and mainsail_angle_bf, computed
\* in the branches of the sail type test
inline_sail_angle_bf(sail_type, input) ==
    IF sail_type = 1
    THEN constrain_float(FMul(FDiv((Servo(input, DIRECT_WING_SERVO_CH) - 1500) * 1000,
                                   500 * 1000), 90 * 1000), -90 * 1000, 90 * 1000)
    ELSE constrain_float(FMul(FDiv((Servo(input, MAINSAIL_SERVO_CH) - 1000) * 1000,
                                   1000 * 1000), 90 * 1000), 0, 90 * 1000)

\* the sail angle update() of version v works with
sail_angle_bf(v, sail_type, input) ==
    IF v = "torque" THEN get_mainsail_angle_bf(sail_type, input)
    ELSE inline_sail_angle_bf(sail_type, input)

\* the sheet-trimmed angle of attack without MAX(.., 0)
sheet_aoa_deg_unbounded(v, wind_apparent_dir_bf, mainsail_angle_bf) ==
    IF v = "torque"
    THEN (Abs(wind_apparent_dir_bf) - mainsail_angle_bf) * signum(wind_apparent_dir_bf)
    ELSE (Abs(wind_apparent_dir_bf) - mainsail_angle_bf)
         * (IF is_negative(wind_apparent_dir_bf) THEN -1 ELSE 1)

\* update(): the sheet-trimmed branch of the angle of attack
sheet_aoa_deg(v, wind_apparent_dir_bf, mainsail_angle_bf) ==
    IF v = "torque"
    THEN MAX(Abs(wind_apparent_dir_bf) - mainsail_angle_bf, 0)
         * signum(wind_apparent_dir_bf)
    ELSE MAX(Abs(wind_apparent_dir_bf) - mainsail_angle_bf, 0)
         * (IF is_negative(wind_apparent_dir_bf) THEN -1 ELSE 1)

\* update(): sail angle of attack
aoa_deg(v, sail_type, wind_apparent_dir_bf, angle_bf) ==
    IF sail_type = directly_actuated_wing
    THEN wind_apparent_dir_bf - angle_bf
    ELSE sheet_aoa_deg(v, wind_apparent_dir_bf, angle_bf)

-----------------------------------------------------------------------------
(* update(): one time step of the simulation.                              *)

\* Aircraft::update_wind(input): the earth-frame wind of the input
update_wind(b, input) ==
    [b EXCEPT !.wind_ef = Vec(FMul(cosf(radians(input.wind.direction)), input.wind.speed),
                              FMul(sinf(radians(input.wind.direction)), input.wind.speed),
                              0)]


\* the steering input without the factor 2
steering_of_half_range(input) ==
    FDiv((Servo(input, STEERING_SERVO_CH) - 1000) * 1000, 1000 * 1000) - 500

\* steering input -1 to 1
steering_of(input) ==
    2 * (FDiv((Servo(input, STEERING_SERVO_CH) - 1000) * 1000, 1000 * 1000) - 500)

\* how much time has passed, in seconds
delta_time_of(frame_time_us) == Quot(frame_time_us, 1000)

\* throttle force (for motor sailing)
throttle_force_of(b, input) ==
    IF b.motor_connected
    THEN FMul((constrain_int16(Servo(input, THROTTLE_SERVO_CH), 1000, 2000) - 1500) * 1000,
              100)
    ELSE 0

\* tide calcs: tide_velocity_ef, a zero vector unless armed with a tide set
tide_velocity_ef_of(s, a) ==
    IF a /\ ~is_zero(s.tide.speed)
    THEN Vec(FMul(-cosf(radians(s.tide.direction)), s.tide.speed),
             FMul(-sinf(radians(s.tide.direction)), s.tide.speed),
             0)
    ELSE VZero

\* Aircraft::update_position(): lat/lon/altitude follow the position
update_position(b) == The({ [x EXCEPT !.location = x.position] : x \in {b} })

\* Aircraft::time_advance()
time_advance(b) ==
    The({ [x EXCEPT !.time_now_us = x.time_now_us + x.frame_time_us] : x \in {b} })

\* Aircraft::update_mag_field_bf(): the field seen in the body frame
update_mag_field_bf(b) ==
    The({ [x EXCEPT !.mag_bf = mul_transpose(x.dcm, Vec(1000, 0, 0))] : x \in {b} })

\* the apparent wind in the body frame as <<signed direction, speed>>
wind_apparent_bf_of(v, b) ==
    IF v = "torque"
    THEN The({ << wrap_180(degrees(atan2f(wind_apparent_bf.y, wind_apparent_bf.x))),
                  safe_sqrt(sq(wind_apparent_bf.y) + sq(wind_apparent_bf.x)) >>
               : wind_apparent_bf \in {mul_transpose(b.dcm, VSub(b.velocity_ef, b.wind_ef))} })
    ELSE The({ << wrap_180(degrees(atan2f(wind_apparent_ef.y, wind_apparent_ef.x))
                           - degrees(to_euler(b.dcm).yaw)),
                  safe_sqrt(sq(wind_apparent_ef.x) + sq(wind_apparent_ef.y)) >>
               : wind_apparent_ef \in {VSub(b.velocity_ef, b.wind_ef)} })

\* the heel force: the other version leaves the drag term out
force_heel_of(v, lift_wf, drag_wf, sin_rot_rad, cos_rot_rad) ==
    IF v = "torque"
    THEN FMul(lift_wf, cos_rot_rad) + FMul(drag_wf, sin_rot_rad)
    ELSE FMul(lift_wf, cos_rot_rad)

\* update() up to the sail forces: the locals of that part
sail_forces(v, b, s, input) ==
    The({ The({ The({ [steering |-> steering_of(input),
                       wind_apparent_dir_bf |-> wind[1],
                       wind_apparent_speed |-> wind[2],
                       mainsail_angle_bf |-> mainsail_angle_bf,
                       aoa_deg |-> aoa,
                       lift_wf |-> ld.lift, drag_wf |-> ld.drag,
                       force_fwd |-> FMul(ld.lift, sin_rot_rad) - FMul(ld.drag, cos_rot_rad),
                       force_heel |-> force_heel_of(v, ld.lift, ld.drag,
                                                    sin_rot_rad, cos_rot_rad)]
                      : ld \in {calc_lift_and_drag(v, wind[2], aoa)} })
                : aoa \in {aoa_deg(v, s.sail_type, wind[1], mainsail_angle_bf)},
                  sin_rot_rad \in {sinf(radians(wind[1]))},
                  cos_rot_rad \in {cosf(radians(wind[1]))} })
          : wind \in {wind_apparent_bf_of(v, b)},
            mainsail_angle_bf \in {sail_angle_bf(v, s.sail_type, input)} })

\* hull drag
hull_drag_of(v, speed) ==
    IF v = "torque"
    THEN FMul(FMul(sq(speed), mass(v)), 500) * signum(speed)
    ELSE FMul(sq(speed), 500) * (IF is_negative(speed) THEN -1 ELSE 1)

\* the torque version: roll_rate, gyro and the attitude rotated by it
attitude_torque(b, a, force_heel, yaw_rate, delta_time) ==
    The({ The({ The({ [gyro |-> gyro,
                       dcm |-> rotate(b.dcm, VScale(gyro, delta_time)),
                       heelAngle_rad |-> heelAngle_rad, roll_rate |-> roll_rate,
                       heel_angle |-> 0]
                      : gyro \in {VAdd(Vec(roll_rate, 0, radians(yaw_rate)), b.wave_gyro)} })
                : roll_rate \in {b.gyro.x
                                 - FMul(get_heel_angular_acceleration(
                                            a, force_heel, heelAngle_rad, b.gyro.x),
                                        delta_time)} })
          : heelAngle_rad \in {The({ wrap_PI(atan2f(keel_bf.y, keel_bf.z))
                                     : keel_bf \in {mul_transpose(b.dcm, Vec(0, 0, 1000))} })} })

\* the other version without the roll overwritten: the attitude as rotated
attitude_direct_roll_kept(b, force_heel, yaw_rate, delta_time) ==
    The({ The({ [gyro |-> gyro,
                 dcm |-> from_euler(e.roll, e.pitch, e.yaw),
                 heelAngle_rad |-> 0, roll_rate |-> 0, heel_angle |-> heel_angle]
                : e \in {to_euler(rotate(b.dcm, VScale(gyro, delta_time)))} })
          : heel_angle \in {constrain_float(FMul(force_heel, 50), -45 * 1000, 45 * 1000)},
            gyro \in {VAdd(Vec(0, 0, radians(yaw_rate)), b.wave_gyro)} })

\* the other version: gyro, the attitude rotated by it, then the roll
\* overwritten with the heel angle
attitude_direct(b, force_heel, yaw_rate, delta_time) ==
    The({ The({ [gyro |-> gyro,
                 dcm |-> from_euler(radians(heel_angle), e.pitch, e.yaw),
                 heelAngle_rad |-> 0, roll_rate |-> 0, heel_angle |-> heel_angle]
                : e \in {to_euler(rotate(b.dcm, VScale(gyro, delta_time)))} })
          : heel_angle \in {constrain_float(FMul(force_heel, 50), -45 * 1000, 45 * 1000)},
            gyro \in {VAdd(Vec(0, 0, radians(yaw_rate)), b.wave_gyro)} })

\* the angular rate of the step and the attitude it leads to
attitude_step(v, b, a, force_heel, yaw_rate, delta_time) ==
    IF v = "torque"
    THEN attitude_torque(b, a, force_heel, yaw_rate, delta_time)
    ELSE attitude_direct(b, force_heel, yaw_rate, delta_time)

\* the acceleration in the earth frame without the vertical component replaced
accel_earth_of_no_heave(v, b, input, dcm, force_fwd, speed, yaw_rate) ==
    dcm_mul(from_euler(0, 0, to_euler(dcm).yaw),
            The({ [accel_body0 EXCEPT !.y = @ + FMul(radians(yaw_rate), speed)]
                  : accel_body0 \in
                      {VDivide(Vec((throttle_force_of(b, input) + force_fwd)
                                   - hull_drag_of(v, speed), 0, 0),
                               mass(v))} }))

\* the acceleration in the earth frame: the body frame acceleration turned by
\* the yaw alone, its vertical component replaced by the heave
accel_earth_of(v, b, input, dcm, force_fwd, speed, yaw_rate) ==
    The({ [accel_earth0 EXCEPT !.z = 0 + b.wave_heave]
          : accel_earth0 \in
              {dcm_mul(from_euler(0, 0, to_euler(dcm).yaw),
                       The({ [accel_body0 EXCEPT !.y = @ + FMul(radians(yaw_rate), speed)]
                             : accel_body0 \in
                                 {VDivide(Vec((throttle_force_of(b, input) + force_fwd)
                                              - hull_drag_of(v, speed), 0, 0),
                                          mass(v))} }))} })

\* the integration with the tide added into the water-relative velocity
integrate_tide_into_water(b, accel_earth, tide_velocity_ef, delta_time) ==
    The({ [b EXCEPT !.velocity_ef_water = velocity_ef,
                    !.velocity_ef = velocity_ef,
                    !.position = VAdd(b.position, VScale(velocity_ef, delta_time))]
          : velocity_ef \in {VAdd(VAdd(b.velocity_ef_water,
                                       VScale(accel_earth, delta_time)),
                                  tide_velocity_ef)} })

\* the integration with the position moved by the velocity of the step before
integrate_position_first(b, accel_earth, tide_velocity_ef, delta_time) ==
    The({ The({ [b EXCEPT !.velocity_ef_water = velocity_ef_water,
                          !.velocity_ef = velocity_ef,
                          !.position = VAdd(b.position, VScale(b.velocity_ef, delta_time))]
                : velocity_ef \in {VAdd(velocity_ef_water, tide_velocity_ef)} })
          : velocity_ef_water \in {VAdd(b.velocity_ef_water,
                                        VScale(accel_earth, delta_time))} })

\* the new velocity and position vectors
integrate(b, accel_earth, tide_velocity_ef, delta_time) ==
    The({ The({ [b EXCEPT !.velocity_ef_water = velocity_ef_water,
                          !.velocity_ef = velocity_ef,
                          !.position = VAdd(b.position, VScale(velocity_ef, delta_time))]
                : velocity_ef \in {VAdd(velocity_ef_water, tide_velocity_ef)} })
          : velocity_ef_water \in {VAdd(b.velocity_ef_water,
                                        VScale(accel_earth, delta_time))} })

\* update() from the sail forces on with update_wave called first instead of
\* last, so that the step consumes the wave_gyro and wave_heave it produced
motion_wave_first(v, b0, s, a, input, f, delta_time) ==
    The({ The({ The({ The({ The({
        [boat |-> update_mag_field_bf(time_advance(update_position(
                      integrate([b EXCEPT
                                   !.rpm = f.wind_apparent_speed,
                                   !.airspeed_pitot = f.wind_apparent_speed,
                                   !.gyro = att.gyro,
                                   !.dcm = att.dcm,
                                   !.accel_body =
                                       mul_transpose(att.dcm,
                                           VAdd(accel_earth, Vec(0, 0, -GRAVITY_MSS)))],
                                accel_earth, tide_velocity_ef, delta_time)))),
         locals |-> [speed |-> speed, yaw_rate |-> yaw_rate,
                     delta_time |-> delta_time,
                     heelAngle_rad |-> att.heelAngle_rad,
                     roll_rate |-> att.roll_rate,
                     heel_angle |-> att.heel_angle,
                     gyro |-> att.gyro,
                     accel_earth |-> accel_earth,
                     tide_velocity_ef |-> tide_velocity_ef]]
        : accel_earth \in {accel_earth_of(v, b, input, att.dcm, f.force_fwd, speed, yaw_rate)},
          tide_velocity_ef \in {tide_velocity_ef_of(s, a)} })
        : att \in {attitude_step(v, b, a, f.force_heel, yaw_rate, delta_time)} })
        : yaw_rate \in {get_yaw_rate(f.steering, speed).ret} })
        : speed \in {mul_transpose(b.dcm, b.velocity_ef_water).x} })
        : b \in {update_wave(b0, s, a, delta_time)} })

\* update() from the sail forces f on: the instance afterwards and the locals
motion(v, b, s, a, input, f, delta_time) ==
    The({ The({ The({ The({
        [boat |-> update_wave(
                      update_mag_field_bf(time_advance(update_position(
                          integrate([b EXCEPT
                                       !.rpm = f.wind_apparent_speed,
                                       !.airspeed_pitot = f.wind_apparent_speed,
                                       !.gyro = att.gyro,
                                       !.dcm = att.dcm,
                                       !.accel_body =
                                           mul_transpose(att.dcm,
                                               VAdd(accel_earth, Vec(0, 0, -GRAVITY_MSS)))],
                                    accel_earth, tide_velocity_ef, delta_time)))),
                      s, a, delta_time),
         locals |-> [speed |-> speed, yaw_rate |-> yaw_rate,
                     delta_time |-> delta_time,
                     heelAngle_rad |-> att.heelAngle_rad,
                     roll_rate |-> att.roll_rate,
                     heel_angle |-> att.heel_angle,
                     gyro |-> att.gyro,
                     accel_earth |-> accel_earth,
                     tide_velocity_ef |-> tide_velocity_ef]]
        : accel_earth \in {accel_earth_of(v, b, input, att.dcm, f.force_fwd, speed, yaw_rate)},
          tide_velocity_ef \in {tide_velocity_ef_of(s, a)} })
        : att \in {attitude_step(v, b, a, f.force_heel, yaw_rate, delta_time)} })
        : yaw_rate \in {get_yaw_rate(f.steering, speed).ret} })
        : speed \in {mul_transpose(b.dcm, b.velocity_ef_water).x} })

\* the namespace-scope timers after a step: update_time_s += delta_time, and
\* last_print_time_s follows when more than a second has passed (the roll is
\* then printed); the other version has neither
timers(v, ut, lp, delta_time) ==
    IF v = "torque"
    THEN IF (ut + delta_time) - lp > 1000
         THEN [update_time_s |-> ut + delta_time, last_print_time_s |-> ut + delta_time,
               printed |-> TRUE]
         ELSE [update_time_s |-> ut + delta_time, last_print_time_s |-> lp,
               printed |-> FALSE]
    ELSE [update_time_s |-> ut, last_print_time_s |-> lp, printed |-> FALSE]

\* update() with the time step read off the namespace-scope timers
update_shared_clock(v, b0, s, a, input, ut, lp) ==
    The({ The({ The({ [boat |-> m.boat,
                       timers |-> timers(v, ut, lp, delta_time_of(b1.frame_time_us)),
                       sail |-> f,
                       locals |-> m.locals]
                      : m \in {motion(v, b1, s, a, input, f,
                                      (ut + delta_time_of(b1.frame_time_us)) - lp)} })
                : f \in {sail_forces(v, b1, s, input)} })
          : b1 \in {update_wind(b0, input)} })

\* update(input) of version v on the instance b0, with the parameters s, the
\* armed state a and the namespace-scope timers ut (update_time_s) and lp
\* (last_print_time_s): the instance and the timers afterwards, and the locals
update(v, b0, s, a, input, ut, lp) ==
    The({ The({ The({ [boat |-> m.boat,
                       timers |-> timers(v, ut, lp, delta_time_of(b1.frame_time_us)),
                       sail |-> f,
                       locals |-> m.locals]
                      : m \in {motion(v, b1, s, a, input, f,
                                      delta_time_of(b1.frame_time_us))} })
                : f \in {sail_forces(v, b1, s, input)} })
          : b1 \in {update_wind(b0, input)} })

-----------------------------------------------------------------------------
(* AP_Mount.cpp.  The object is [_params, _backends, _num_instances,        *)
(* _primary], instances are numbered from 0 as in the source.  A function   *)
(* of the class yields the object it leaves, the calls it made on backends  *)
(* in their order (log) and the value it returns.  A backend is known by    *)
(* the class instantiated for it; operator new is taken to return an object.*)

AP_MOUNT_MAX_INSTANCES == 2

MountInstances == 0..(AP_MOUNT_MAX_INSTANCES - 1)

nullptr == "nullptr"

\* all the build options that select a backend
MountBuildOptions ==
    { "HAL_MOUNT_SERVO_ENABLED", "HAL_SOLO_GIMBAL_ENABLED", "HAL_MOUNT_ALEXMOS_ENABLED",
      "HAL_MOUNT_STORM32MAVLINK_ENABLED", "HAL_MOUNT_STORM32SERIAL_ENABLED",
      "HAL_MOUNT_GREMSY_ENABLED" }

\* the object as constructed: members are zeroed, the parameters as loaded
MountConstructed(types, default_modes) ==
    [_params |-> [i \in MountInstances |->
                     [type |-> types[i], default_mode |-> default_modes[i]]],
     _backends |-> [i \in MountInstances |-> nullptr],
     _num_instances |-> 0,
     _primary |-> 0]

\* get_mount_type - returns the type of mount
get_mount_type(m, instance) ==
    IF instance >= AP_MOUNT_MAX_INSTANCES THEN "Mount_Type_None"
    ELSE m._params[instance].type

check_instance(m, instance) ==
    instance < AP_MOUNT_MAX_INSTANCES /\ m._backends[instance] # nullptr

check_primary(m) == check_instance(m, m._primary)

\* set_mode - sets mount's mode: the call made on the backend
set_mode(m, instance, mode) ==
    IF ~check_instance(m, instance) THEN <<>>
    ELSE << <<"set_mode", instance, mode>> >>

\* set_mode_to_default - restores the mode to the default mode parameter
set_mode_to_default(m, instance) ==
    set_mode(m, instance, m._params[instance].default_mode)

\* set angle target in degrees
set_angle_target(m, instance, yaw_is_earth_frame) ==
    IF ~check_instance(m, instance) THEN <<>>
    ELSE << <<"set_angle_target", instance, yaw_is_earth_frame>> >>

\* sets rate target in deg/s
set_rate_target(m, instance, yaw_lock) ==
    IF ~check_instance(m, instance) THEN <<>>
    ELSE << <<"set_rate_target", instance, yaw_lock>> >>

\* init: the class instantiated for a mount type, nullptr where the chain of
\* tests as compiled creates nothing
backend_class(mount_type, build) ==
    IF mount_type = "Mount_Type_Servo"
    THEN (IF "HAL_MOUNT_SERVO_ENABLED" \in build THEN "AP_Mount_Servo" ELSE nullptr)
    ELSE IF "HAL_SOLO_GIMBAL_ENABLED" \in build /\ mount_type = "Mount_Type_SoloGimbal"
    THEN "AP_Mount_SoloGimbal"
    ELSE IF "HAL_MOUNT_ALEXMOS_ENABLED" \in build /\ mount_type = "Mount_Type_Alexmos"
    THEN "AP_Mount_Alexmos"
    ELSE IF "HAL_MOUNT_STORM32MAVLINK_ENABLED" \in build /\ mount_type = "Mount_Type_SToRM32"
    THEN "AP_Mount_SToRM32"
    ELSE IF "HAL_MOUNT_STORM32SERIAL_ENABLED" \in build
            /\ mount_type = "Mount_Type_SToRM32_serial"
    THEN "AP_Mount_SToRM32_serial"
    ELSE IF "HAL_MOUNT_GREMSY_ENABLED" \in build /\ mount_type = "Mount_Type_Gremsy"
    THEN "AP_Mount_Gremsy"
    ELSE IF "HAL_MOUNT_SERVO_ENABLED" \in build /\ mount_type = "Mount_Type_BrushlessPWM"
    THEN "AP_Mount_Servo"
    ELSE nullptr

\* init: one pass of the loop that creates the instances, with the primary
\* set to every instantiated mount in turn
create_instance_primary_last(m, build, instance, primary_set, log) ==
    LET class == backend_class(get_mount_type(m, instance), build)
        m1 == IF class = nullptr THEN m
              ELSE [m EXCEPT !._backends[instance] = class,
                             !._num_instances = @ + 1]
    IN  [m |-> IF m1._backends[instance] # nullptr
               THEN [m1 EXCEPT !._primary = instance] ELSE m1,
         primary_set |-> primary_set \/ m1._backends[instance] # nullptr,
         log |-> IF class = nullptr THEN log ELSE Append(log, <<"new", instance, class>>)]

\* init: one pass of the loop that creates the instances
create_instance(m, build, instance, primary_set, log) ==
    LET class == backend_class(get_mount_type(m, instance), build)
        m1 == IF class = nullptr THEN m
              ELSE [m EXCEPT !._backends[instance] = class,
                             !._num_instances = @ + 1]
    IN  [m |-> IF m1._backends[instance] # nullptr /\ ~primary_set
               THEN [m1 EXCEPT !._primary = instance] ELSE m1,
         primary_set |-> primary_set \/ m1._backends[instance] # nullptr,
         log |-> IF class = nullptr THEN log ELSE Append(log, <<"new", instance, class>>)]

\* init: the loop that creates the instances, from instance on
RECURSIVE create_instances(_, _, _, _, _)
create_instances(m, build, instance, primary_set, log) ==
    IF instance >= AP_MOUNT_MAX_INSTANCES THEN [m |-> m, log |-> log]
    ELSE LET c == create_instance(m, build, instance, primary_set, log)
         IN  create_instances(c.m, build, instance + 1, c.primary_set, c.log)

\* init: the loop that initialises the instances, from instance on
RECURSIVE init_instances(_, _, _)
init_instances(m, instance, log) ==
    IF instance >= AP_MOUNT_MAX_INSTANCES THEN log
    ELSE init_instances(m, instance + 1,
                        IF m._backends[instance] # nullptr
                        THEN Append(log, <<"init", instance>>)
                             \o set_mode_to_default(m, instance)
                        ELSE log)

\* init - detect and initialise all mounts.  convert_params() writes the
\* rc_rate_max parameter only, which no function here reads
AP_Mount_init(m, build) ==
    IF m._num_instances # 0 THEN [m |-> m, log |-> <<>>]
    ELSE LET c == create_instances(m, build, 0, FALSE, <<>>)
         IN  [m |-> c.m, log |-> init_instances(c.m, 0, c.log)]

\* handle_command_do_mount_configure without check_primary
handle_command_do_mount_configure_unchecked(m, packet, backend_result) ==
    [ret |-> "MAV_RESULT_ACCEPTED",
     log |-> << <<"set_mode", m._primary, packet.param1>> >>]

handle_command_do_mount_configure(m, packet, backend_result) ==
    IF ~check_primary(m) THEN [ret |-> "MAV_RESULT_FAILED", log |-> <<>>]
    ELSE [ret |-> "MAV_RESULT_ACCEPTED",
          log |-> << <<"set_mode", m._primary, packet.param1>> >>]

\* the backend returns backend_result
handle_command_do_mount_control(m, packet, backend_result) ==
    IF ~check_primary(m) THEN [ret |-> "MAV_RESULT_FAILED", log |-> <<>>]
    ELSE [ret |-> backend_result,
          log |-> << <<"handle_command_do_mount_control", m._primary>> >>]

\* set_angle_target and set_rate_target are called without an instance and
\* address the primary
handle_command_do_gimbal_manager_pitchyaw(m, packet, backend_result) ==
    IF ~check_primary(m) THEN [ret |-> "MAV_RESULT_FAILED", log |-> <<>>]
    ELSE IF "GIMBAL_MANAGER_FLAGS_RETRACT" \in packet.param5
    THEN [ret |-> "MAV_RESULT_ACCEPTED",
          log |-> << <<"set_mode", m._primary, "MAV_MOUNT_MODE_RETRACT">> >>]
    ELSE IF "GIMBAL_MANAGER_FLAGS_NEUTRAL" \in packet.param5
    THEN [ret |-> "MAV_RESULT_ACCEPTED",
          log |-> << <<"set_mode", m._primary, "MAV_MOUNT_MODE_NEUTRAL">> >>]
    ELSE IF ~packet.angle_isnan
    THEN [ret |-> "MAV_RESULT_ACCEPTED",
          log |-> set_angle_target(m, m._primary,
                                   "GIMBAL_MANAGER_FLAGS_YAW_LOCK" \in packet.param5)]
    ELSE IF ~packet.rate_isnan
    THEN [ret |-> "MAV_RESULT_ACCEPTED",
          log |-> set_rate_target(m, m._primary,
                                  "GIMBAL_MANAGER_FLAGS_YAW_LOCK" \in packet.param5)]
    ELSE [ret |-> "MAV_RESULT_FAILED", log |-> <<>>]

handle_command_long(m, packet, backend_result) ==
    IF packet.command = "MAV_CMD_DO_MOUNT_CONFIGURE"
    THEN handle_command_do_mount_configure(m, packet, backend_result)
    ELSE IF packet.command = "MAV_CMD_DO_MOUNT_CONTROL"
    THEN handle_command_do_mount_control(m, packet, backend_result)
    ELSE IF packet.command = "MAV_CMD_DO_GIMBAL_MANAGER_PITCHYAW"
    THEN handle_command_do_gimbal_manager_pitchyaw(m, packet, backend_result)
    ELSE [ret |-> "MAV_RESULT_UNSUPPORTED", log |-> <<>>]

\* the characters of the failure messages, and the terminating character
NUL == "\\0"

CheckTypeMsg == <<"c", "h", "e", "c", "k", " ", "T", "Y", "P", "E">>

NotHealthyMsg == <<"n", "o", "t", " ", "h", "e", "a", "l", "t", "h", "y">>

\* strncpy(dest, src, n): the first n characters of src, padded with NUL to n
strncpy(dest, src, n) ==
    [i \in 1..Len(dest) |->
        IF i > n THEN dest[i] ELSE IF i <= Len(src) THEN src[i] ELSE NUL]

\* pre_arm_checks with the health of the backends checked first
pre_arm_checks_healthy_first(m, healthy, failure_msg, failure_msg_len) ==
    IF \E i \in MountInstances : m._backends[i] # nullptr /\ ~healthy[i]
    THEN [ret |-> FALSE, failure_msg |-> strncpy(failure_msg, NotHealthyMsg, failure_msg_len)]
    ELSE IF \E i \in MountInstances :
                m._params[i].type # "Mount_Type_None" /\ m._backends[i] = nullptr
    THEN [ret |-> FALSE, failure_msg |-> strncpy(failure_msg, CheckTypeMsg, failure_msg_len)]
    ELSE [ret |-> TRUE, failure_msg |-> failure_msg]

\* run pre-arm check.  returns false on failure and fills in failure_msg;
\* healthy[i] is what the backend of instance i answers
pre_arm_checks(m, healthy, failure_msg, failure_msg_len) ==
    IF \E i \in MountInstances :
           m._params[i].type # "Mount_Type_None" /\ m._backends[i] = nullptr
    THEN [ret |-> FALSE, failure_msg |-> strncpy(failure_msg, CheckTypeMsg, failure_msg_len)]
    ELSE IF m._num_instances = 0
    THEN [ret |-> TRUE, failure_msg |-> failure_msg]
    ELSE IF \E i \in MountInstances : m._backends[i] # nullptr /\ ~healthy[i]
    THEN [ret |-> FALSE, failure_msg |-> strncpy(failure_msg, NotHealthyMsg, failure_msg_len)]
    ELSE [ret |-> TRUE, failure_msg |-> failure_msg]

-----------------------------------------------------------------------------
(* The state machine: instances stepped by the scheduler in any order.     *)

\* bounds of the model
MaxSteps == 3
FrameTimeUs == 400000

Instances == {1, 2}

\* the instance as constructed: members are zeroed, frame_str selects the motor
InitBoat(frame_str) ==
    [dcm |-> Euler(0, 0, 0), gyro |-> VZero, accel_body |-> VZero,
     velocity_ef |-> VZero, velocity_ef_water |-> VZero, position |-> VZero,
     wind_ef |-> VZero, rpm |-> 0, airspeed_pitot |-> 0,
     location |-> VZero, mag_bf |-> VZero, time_now_us |-> 0,
     frame_time_us |-> FrameTimeUs,
     motor_connected |-> (frame_str = "sailboat-motor"),
     wave_gyro |-> VZero, wave_heave |-> 0, wave_phase |-> 0]

\* the configurations a run starts in, as <<parameter block, frame_str>>: waves
\* on without and with heave and off, tide set and not, both sail types
Scenarios ==
    { << [wave |-> [enable |-> 1, direction |-> 90000, speed |-> 500, length |-> 10000,
                    amp |-> 500],
          tide |-> [direction |-> 0, speed |-> 0],
          sail_type |-> mainsail_with_sheet], "sailboat-motor" >>,
      << [wave |-> [enable |-> 2, direction |-> 30000, speed |-> 1000, length |-> 5000,
                    amp |-> 1000],
          tide |-> [direction |-> 90000, speed |-> 500],
          sail_type |-> directly_actuated_wing], "sailboat" >>,
      << [wave |-> [enable |-> 0, direction |-> 0, speed |-> 1000, length |-> 5000,
                    amp |-> 1000],
          tide |-> [direction |-> 45000, speed |-> 200],
          sail_type |-> mainsail_with_sheet], "sailboat" >> }

\* control inputs: servo outputs 1..5 and the ambient wind
Inputs ==
    { [servos |-> <<1750, 1500, 1800, 1200, 1600>>,
       wind |-> [speed |-> 3000, direction |-> 100000]],
      [servos |-> <<1500, 1500, 1500, 1900, 1300>>,
       wind |-> [speed |-> 2000, direction |-> 200000]] }

NoCall == [fn |-> "none"]

\* no mount is configured, and init() has not been called
MountNotInUse ==
    /\ mount = MountConstructed([i \in MountInstances |-> "Mount_Type_None"],
                                [i \in MountInstances |-> "MAV_MOUNT_MODE_RC_TARGETING"])
    /\ mount_build = MountBuildOptions
    /\ mount_inits = 0

Init ==
    /\ variant \in {"torque", "direct"}
    /\ \E sc \in Scenarios :
           /\ sitl = sc[1]
           /\ boats = [i \in Instances |-> InitBoat(sc[2])]
    /\ update_time_s = 0
    /\ last_print_time_s = 0
    /\ armed = FALSE
    /\ call = NoCall
    /\ nsteps = 0
    /\ trace = [i \in Instances |-> <<>>]
    /\ MountNotInUse

\* the scheduler steps instance i with a control input
Update(i) ==
    /\ nsteps < MaxSteps
    /\ \E input \in Inputs :
          \E r \in {update(variant, boats[i], sitl, armed, input,
                             update_time_s, last_print_time_s)} :
              /\ boats' = [boats EXCEPT ![i] = r.boat]
              /\ update_time_s' = r.timers.update_time_s
              /\ last_print_time_s' = r.timers.last_print_time_s
              /\ call' = [fn |-> "update", self |-> i, input |-> input, armed |-> armed,
                          pre |-> boats[i], sail |-> r.sail, locals |-> r.locals,
                          printed |-> r.timers.printed]
              /\ trace' = [trace EXCEPT ![i] = Append(@, <<input, armed>>)]
    /\ nsteps' = nsteps + 1
    /\ UNCHANGED <<mount_vars, variant, armed, sitl>>

\* the vehicle is armed or disarmed
SetArmed ==
    /\ armed' = ~armed
    /\ UNCHANGED <<mount_vars, variant, boats, update_time_s, last_print_time_s, sitl, call,
                   nsteps, trace>>

Next ==
    \/ \E i \in Instances : Update(i)
    \/ SetArmed

Spec == Init /\ [][Next]_vars

-----------------------------------------------------------------------------
(* Two runs in one process: the second instance replays, step by step, the *)
(* input the first one was given.  The namespace-scope timers are shared,  *)
(* so the two runs see different timer values.                             *)

StepBoth ==
    /\ nsteps < MaxSteps
    /\ \E input \in Inputs :
       \E r1 \in {update(variant, boats[1], sitl, armed, input,
                         update_time_s, last_print_time_s)} :
       \E r2 \in {update(variant, boats[2], sitl, armed, input,
                         r1.timers.update_time_s, r1.timers.last_print_time_s)} :
           /\ boats' = [boats EXCEPT ![1] = r1.boat, ![2] = r2.boat]
           /\ update_time_s' = r2.timers.update_time_s
           /\ last_print_time_s' = r2.timers.last_print_time_s
           /\ call' = [fn |-> "update", self |-> 2, input |-> input, armed |-> armed,
                       pre |-> boats[2], sail |-> r2.sail, locals |-> r2.locals,
                       printed |-> r2.timers.printed,
                       printed_first |-> r1.timers.printed]
           /\ trace' = [i \in Instances |-> Append(trace[i], <<input, armed>>)]
    /\ nsteps' = nsteps + 1
    /\ UNCHANGED <<mount_vars, variant, armed, sitl>>

NextTwin ==
    \/ StepBoth
    \/ SetArmed

SpecTwin == Init /\ [][NextTwin]_vars

-----------------------------------------------------------------------------
(* update_wave() on its own: called with any attitude, velocity and wave   *)
(* parameters, any number of times in a row.                               *)

MaxWaveCalls == 2

WaveParams ==
    { [enable |-> 1, direction |-> 90000, speed |-> 500, length |-> 10000, amp |-> 500],
      [enable |-> 2, direction |-> 30000, speed |-> -3000, length |-> 700, amp |-> 300],
      [enable |-> 1, direction |-> 0, speed |-> 20000, length |-> 1000, amp |-> 0],
      [enable |-> 2, direction |-> 180000, speed |-> 20000, length |-> 1000, amp |-> 2000],
      [enable |-> 0, direction |-> 0, speed |-> 1000, length |-> 5000, amp |-> 1000] }

WaveVelocities == { VZero, Vec(4000, -1000, 250) }

WaveAttitudes == { Euler(0, 0, 0), Euler(200, -100, 1000) }

InitWave ==
    /\ Init
    /\ sitl.wave.enable = 1

CallUpdateWave ==
    /\ nsteps < MaxWaveCalls
    /\ \E w \in WaveParams, vel \in WaveVelocities, att \in WaveAttitudes :
       \E b \in {[boats[1] EXCEPT !.velocity_ef = vel, !.dcm = att]} :
           /\ sitl' = [sitl EXCEPT !.wave = w]
           /\ boats' = [boats EXCEPT ![1] =
                            update_wave(b, sitl', armed, delta_time_of(b.frame_time_us))]
           /\ call' = [fn |-> "update_wave", self |-> 1, pre |-> b, armed |-> armed,
                       wave |-> w, delta_time |-> delta_time_of(b.frame_time_us)]
    /\ nsteps' = nsteps + 1
    /\ UNCHANGED <<mount_vars, variant, update_time_s, last_print_time_s, armed, trace>>

NextWave ==
    \/ CallUpdateWave
    \/ SetArmed

SpecWave == InitWave /\ [][NextWave]_vars

-----------------------------------------------------------------------------
(* The functions without state, each called once with arguments drawn from  *)
(* its domain.                                                             *)

\* steps of the argument grids
SteeringStep == 250
SpeedStep == 1500
ServoStep == 125
AngleStep == 7500
AoaStep == 2500

\* steering proportions in -1..1 and beyond, 0 among them
SteeringValues == { SteeringStep * k : k \in -5..5 } \cup { -20, 20 }

\* speeds in m/s, 0 among them
SpeedValues == { SpeedStep * k : k \in -2..3 } \cup { -100, 100 }

\* every 16 bit servo output on a grid, and the ends of the ranges
ServoValues ==
    { ServoStep * k : k \in 0..(65535 \div ServoStep) } \cup { 999, 1000, 1001, 1499, 1500,
                                                              1501, 1999, 2000, 2001, 65535 }

\* apparent wind angles in [-180, 180] and sail angles in [0, 90]
WindAngles ==
    { AngleStep * k : k \in -(180000 \div AngleStep)..(180000 \div AngleStep) }
    \cup { -180000, -1, 1, 180000 }

SailAngles == { AngleStep * k : k \in 0..(90000 \div AngleStep) } \cup { 1, 90000 }

\* angles of attack, those of a direct wing beyond [-180, 180] among them
AoaValues ==
    { AoaStep * k : k \in -(270000 \div AoaStep)..(270000 \div AoaStep) }
    \cup { -270000, -180000, -175000, -170000, 170000, 175000, 180000, 270000 }

WindSpeeds == { 0, 2000, 5000 }

HeelForces == { -5000, 0, 4000 }

RollAngles == { -1000, 0, 500 }

RollRates == { -500, 0, 300 }

InitPure ==
    /\ Init
    /\ sitl.wave.enable = 1

CallGetTurnCircle ==
    /\ call = NoCall
    /\ \E steering \in SteeringValues :
           call' = [fn |-> "get_turn_circle", steering |-> steering,
                    result |-> get_turn_circle(steering)]
    /\ UNCHANGED <<mount_vars, variant, boats, update_time_s, last_print_time_s, armed, sitl,
                   nsteps, trace>>

CallGetYawRate ==
    /\ call = NoCall
    /\ \E steering \in SteeringValues, speed \in SpeedValues :
           call' = [fn |-> "get_yaw_rate", steering |-> steering, speed |-> speed,
                    result |-> get_yaw_rate(steering, speed)]
    /\ UNCHANGED <<mount_vars, variant, boats, update_time_s, last_print_time_s, armed, sitl,
                   nsteps, trace>>

CallGetHeelAngularAcceleration ==
    /\ call = NoCall
    /\ \E force_heel \in HeelForces, roll \in RollAngles, rate \in RollRates :
           call' = [fn |-> "get_heel_angular_acceleration", armed |-> armed,
                    force_heel |-> force_heel, roll |-> roll, rate |-> rate,
                    result |-> get_heel_angular_acceleration(armed, force_heel, roll, rate)]
    /\ UNCHANGED <<mount_vars, variant, boats, update_time_s, last_print_time_s, armed, sitl,
                   nsteps, trace>>

CallSailAngle ==
    /\ call = NoCall
    /\ \E sail_type \in {mainsail_with_sheet, directly_actuated_wing},
          servo \in ServoValues :
           call' = [fn |-> "sail_angle_bf", sail_type |-> sail_type, servo |-> servo,
                    result |-> sail_angle_bf(variant, sail_type,
                                             [servos |-> <<1500, 1500, 1500, servo, servo>>])]
    /\ UNCHANGED <<mount_vars, variant, boats, update_time_s, last_print_time_s, armed, sitl,
                   nsteps, trace>>

CallAoa ==
    /\ call = NoCall
    /\ \E sail_type \in {mainsail_with_sheet, directly_actuated_wing},
          w \in WindAngles, a \in SailAngles :
           call' = [fn |-> "aoa_deg", sail_type |-> sail_type, wind |-> w, sail |-> a,
                    result |-> aoa_deg(variant, sail_type, w, a)]
    /\ UNCHANGED <<mount_vars, variant, boats, update_time_s, last_print_time_s, armed, sitl,
                   nsteps, trace>>

CallCalcLiftAndDrag ==
    /\ call = NoCall
    /\ \E wind_speed \in WindSpeeds, angle \in AoaValues :
           call' = [fn |-> "calc_lift_and_drag", wind_speed |-> wind_speed,
                    angle |-> angle,
                    result |-> calc_lift_and_drag(variant, wind_speed, angle)]
    /\ UNCHANGED <<mount_vars, variant, boats, update_time_s, last_print_time_s, armed, sitl,
                   nsteps, trace>>

\* arming before the call
SetArmedBefore ==
    /\ call = NoCall
    /\ SetArmed

NextPure ==
    \/ CallGetTurnCircle
    \/ CallGetYawRate
    \/ CallGetHeelAngularAcceleration
    \/ CallSailAngle
    \/ CallAoa
    \/ CallCalcLiftAndDrag
    \/ SetArmedBefore

SpecPure == InitPure /\ [][NextPure]_vars

-----------------------------------------------------------------------------
(* One instance stepped on its own, with a calm among the winds and with a  *)
(* sail type selector that names no sail type among the parameters.        *)

\* a selector that is neither mainsail_with_sheet nor directly_actuated_wing
UnknownSailType == 2

StepScenarios ==
    Scenarios \cup
    { << [wave |-> [enable |-> 2, direction |-> 60000, speed |-> 800, length |-> 8000,
                    amp |-> 600],
          tide |-> [direction |-> 120000, speed |-> 300],
          sail_type |-> UnknownSailType], "sailboat" >> }

StepInputs ==
    Inputs \cup
    { [servos |-> <<1250, 1500, 1500, 1400, 1700>>, wind |-> [speed |-> 0, direction |-> 0]] }

InitStep ==
    /\ variant \in {"torque", "direct"}
    /\ \E sc \in StepScenarios :
           /\ sitl = sc[1]
           /\ boats = [i \in Instances |-> InitBoat(sc[2])]
    /\ update_time_s = 0
    /\ last_print_time_s = 0
    /\ armed = FALSE
    /\ call = NoCall
    /\ nsteps = 0
    /\ trace = [i \in Instances |-> <<>>]
    /\ MountNotInUse

\* update(input) of instance 1 run to its end; prev holds the locals of the
\* step before it
Step ==
    /\ nsteps < MaxSteps
    /\ call.fn # "assert"
    /\ \E input \in StepInputs :
       \E r \in {update(variant, boats[1], sitl, armed, input,
                        update_time_s, last_print_time_s)} :
           /\ boats' = [boats EXCEPT ![1] = r.boat]
           /\ update_time_s' = r.timers.update_time_s
           /\ last_print_time_s' = r.timers.last_print_time_s
           /\ call' = [fn |-> "update", self |-> 1, input |-> input, armed |-> armed,
                       pre |-> boats[1], sail |-> r.sail, locals |-> r.locals,
                       printed |-> r.timers.printed,
                       prev |-> IF call.fn = "update" THEN <<call.locals>> ELSE <<>>]
           /\ trace' = [trace EXCEPT ![1] = Append(@, <<input, armed>>)]
    /\ nsteps' = nsteps + 1
    /\ UNCHANGED <<mount_vars, variant, armed, sitl>>

\* get_mainsail_angle_bf: assert(sail_type == Sail_type::mainsail_with_sheet)
\* fails in a build that keeps assertions, and the process ends inside
\* update(); a build with NDEBUG goes on as Step does
AssertFails ==
    /\ nsteps < MaxSteps
    /\ call.fn # "assert"
    /\ variant = "torque"
    /\ sitl.sail_type # directly_actuated_wing
    /\ sitl.sail_type # mainsail_with_sheet
    /\ \E input \in StepInputs :
           call' = [fn |-> "assert", self |-> 1, input |-> input, armed |-> armed,
                    pre |-> boats[1]]
    /\ UNCHANGED <<mount_vars, variant, boats, update_time_s, last_print_time_s, armed, sitl,
                   nsteps, trace>>

NextStep ==
    \/ Step
    \/ AssertFails
    \/ SetArmed

SpecStep == InitStep /\ [][NextStep]_vars

-----------------------------------------------------------------------------
(* The attitude part of update() on its own: a boat heeled to an angle and  *)
(* rolling at a rate takes the angular rate of one step.                    *)

\* roll angles in rad, steep enough for the righting acceleration to show in
\* thousandths, and upright
HeelRollStep == 200

HeelRolls == { HeelRollStep * k : k \in -7..-3 } \cup {0}
             \cup { HeelRollStep * k : k \in 3..7 }

\* yaw rates in deg/s
HeelYawRates == { 0, 20000 }

\* the boat as constructed, heeled and rolling
HeeledBoat(roll, rate) ==
    [InitBoat("sailboat") EXCEPT !.dcm = from_euler(roll, 0, 0), !.gyro = Vec(rate, 0, 0)]

CallAttitudeStep ==
    /\ call = NoCall
    /\ \E force_heel \in HeelForces, roll \in HeelRolls, rate \in RollRates,
          yaw_rate \in HeelYawRates :
           call' = [fn |-> "attitude_step", armed |-> armed, force_heel |-> force_heel,
                    roll |-> roll, rate |-> rate, yaw_rate |-> yaw_rate,
                    pre |-> HeeledBoat(roll, rate),
                    result |-> attitude_step(variant, HeeledBoat(roll, rate), armed,
                                             force_heel, yaw_rate,
                                             delta_time_of(FrameTimeUs))]
    /\ UNCHANGED <<mount_vars, variant, boats, update_time_s, last_print_time_s, armed, sitl,
                   nsteps, trace>>

NextAttitude ==
    \/ CallAttitudeStep
    \/ SetArmedBefore

SpecAttitude == InitPure /\ [][NextAttitude]_vars

-----------------------------------------------------------------------------
(* The steering of update() on its own: the steering servo output of the   *)
(* control input becomes the steering proportion get_yaw_rate is called     *)
(* with.                                                                    *)

\* forward speeds in m/s, 0 among them
SteeringSpeeds == { -SpeedStep, 0, SpeedStep, 2 * SpeedStep }

\* the control input with the steering servo at an output
SteeringInput(servo) ==
    [servos |-> <<servo, 1500, 1500, 1500, 1500>>, wind |-> [speed |-> 0, direction |-> 0]]

CallSteering ==
    /\ call = NoCall
    /\ \E servo \in ServoValues, speed \in SteeringSpeeds :
           call' = [fn |-> "steering", servo |-> servo, speed |-> speed,
                    steering |-> steering_of(SteeringInput(servo)),
                    result |-> get_yaw_rate(steering_of(SteeringInput(servo)), speed)]
    /\ UNCHANGED <<mount_vars, variant, boats, update_time_s, last_print_time_s, armed, sitl,
                   nsteps, trace>>

NextSteering == CallSteering

SpecSteering == InitPure /\ [][NextSteering]_vars

-----------------------------------------------------------------------------
(* The mount front end: init() called again and again, the type parameters  *)
(* set from the ground station at any time, commands and pre-arm checks     *)
(* arriving in any order.                                                   *)

MaxInitCalls == 3
MaxFailureMsgLen == 16

\* values of the type parameter: no mount, two mounts with backends, a
\* mount of the servo backend and a number that names no type
MountTypeValues ==
    { "Mount_Type_None", "Mount_Type_Servo", "Mount_Type_Gremsy", "no such Mount_Type" }

MountDefaultModes ==
    [i \in MountInstances |->
        IF i = 0 THEN "MAV_MOUNT_MODE_RC_TARGETING" ELSE "MAV_MOUNT_MODE_NEUTRAL"]

\* a build with every backend and a build with the servo backend alone
MountBuilds == { MountBuildOptions, {"HAL_MOUNT_SERVO_ENABLED"} }

\* COMMAND_LONG packets: the fields the handlers read
MountPacket(command, param1, param5, angle_isnan, rate_isnan) ==
    [command |-> command, param1 |-> param1, param5 |-> param5,
     angle_isnan |-> angle_isnan, rate_isnan |-> rate_isnan]

MountPackets ==
    { MountPacket("MAV_CMD_DO_MOUNT_CONFIGURE", mode, {}, TRUE, TRUE)
      : mode \in {"MAV_MOUNT_MODE_RETRACT", "MAV_MOUNT_MODE_GPS_POINT"} }
    \cup { MountPacket(command, "0", {}, TRUE, TRUE)
           : command \in {"MAV_CMD_DO_MOUNT_CONTROL", "MAV_CMD_DO_SET_ROI",
                          "MAV_CMD_DO_DIGICAM_CONTROL"} }
    \cup { MountPacket("MAV_CMD_DO_GIMBAL_MANAGER_PITCHYAW", "0", {flag}, FALSE, FALSE)
           : flag \in {"GIMBAL_MANAGER_FLAGS_RETRACT", "GIMBAL_MANAGER_FLAGS_NEUTRAL"} }
    \cup { MountPacket("MAV_CMD_DO_GIMBAL_MANAGER_PITCHYAW", "0", flags, nans[1], nans[2])
           : flags \in {{}, {"GIMBAL_MANAGER_FLAGS_YAW_LOCK"}},
             nans \in {<<FALSE, TRUE>>, <<TRUE, FALSE>>, <<TRUE, TRUE>>} }

\* what a backend answers to DO_MOUNT_CONTROL
BackendResults == { "MAV_RESULT_ACCEPTED", "MAV_RESULT_FAILED" }

\* lengths of the caller's buffer: none, the lengths of the messages, one
\* more, and a longer one
FailureMsgLens ==
    { 0, Len(CheckTypeMsg), Len(NotHealthyMsg), Len(NotHealthyMsg) + 1, MaxFailureMsgLen }

\* the caller's buffer before the call: characters that are not known
FailureMsgBuffer(failure_msg_len) == [i \in 1..failure_msg_len |-> "?"]

InitMount ==
    /\ variant = "torque"
    /\ \E sc \in Scenarios :
           /\ sc[1].wave.enable = 0
           /\ sitl = sc[1]
           /\ boats = [i \in Instances |-> InitBoat(sc[2])]
    /\ update_time_s = 0
    /\ last_print_time_s = 0
    /\ armed = FALSE
    /\ call = NoCall
    /\ nsteps = 0
    /\ trace = [i \in Instances |-> <<>>]
    /\ \E types \in [MountInstances -> MountTypeValues] :
           mount = MountConstructed(types, MountDefaultModes)
    /\ mount_build \in MountBuilds
    /\ mount_inits = 0

\* AP_Mount::init()
MountInit ==
    /\ mount_inits < MaxInitCalls
    /\ \E r \in {AP_Mount_init(mount, mount_build)} :
           /\ mount' = r.m
           /\ call' = [fn |-> "init", pre |-> mount, log |-> r.log,
                       inits_before |-> mount_inits]
    /\ mount_inits' = mount_inits + 1
    /\ UNCHANGED <<mount_build, variant, boats, update_time_s, last_print_time_s, armed,
                   sitl, nsteps, trace>>

\* the ground station sets the type parameter of an instance
SetMountType ==
    /\ \E i \in MountInstances, type \in MountTypeValues :
           /\ type # mount._params[i].type
           /\ mount' = [mount EXCEPT !._params[i].type = type]
           /\ call' = [fn |-> "param_set", instance |-> i, type |-> type]
    /\ UNCHANGED <<mount_build, mount_inits, variant, boats, update_time_s,
                   last_print_time_s, armed, sitl, nsteps, trace>>

\* AP_Mount::handle_command_long(packet)
HandleCommandLong ==
    /\ \E packet \in MountPackets, backend_result \in BackendResults :
       \E r \in {handle_command_long(mount, packet, backend_result)} :
           call' = [fn |-> "handle_command_long", packet |-> packet, pre |-> mount,
                    ret |-> r.ret, log |-> r.log]
    /\ UNCHANGED <<mount_vars, variant, boats, update_time_s, last_print_time_s, armed,
                   sitl, nsteps, trace>>

\* AP_Mount::pre_arm_checks(failure_msg, failure_msg_len)
PreArmChecks ==
    /\ \E healthy \in [MountInstances -> BOOLEAN], failure_msg_len \in FailureMsgLens :
       \E r \in {pre_arm_checks(mount, healthy, FailureMsgBuffer(failure_msg_len),
                                failure_msg_len)} :
           call' = [fn |-> "pre_arm_checks", healthy |-> healthy,
                    failure_msg_len |-> failure_msg_len, pre |-> mount,
                    ret |-> r.ret, failure_msg |-> r.failure_msg]
    /\ UNCHANGED <<mount_vars, variant, boats, update_time_s, last_print_time_s, armed,
                   sitl, nsteps, trace>>

NextMount ==
    \/ MountInit
    \/ SetMountType
    \/ HandleCommandLong
    \/ PreArmChecks

SpecMount == InitMount /\ [][NextMount]_vars

-----------------------------------------------------------------------------
(* The properties.                                                         *)

\* the branch of update_wave a call took
DisabledPath == call.wave.enable = 0 \/ ~call.armed \/ call.wave.amp = 0

\* C1: after any sequence of update_wave calls, enabled and disabled paths
\* mixed, with any boat velocity, wave speed and time step and a wave length
\* above zero, wave_phase is at least 0 and below 2 pi.
C1_WavePhaseInRange ==
    \A i \in Instances : boats[i].wave_phase >= 0 /\ boats[i].wave_phase < M_2PI

\* a second call on the enabled path that moved a phase other than 0 by more
\* than a turn, or backwards
C1_Witness ==
    /\ call.fn = "update_wave"
    /\ nsteps = 2
    /\ ~DisabledPath
    /\ call.pre.wave_phase # 0
    /\ boats[1].wave_phase # 0
    /\ call.wave.speed \in {-3000, 20000}

\* C2: a call of update_wave with waves off, the vehicle disarmed or a zero
\* amplitude sets wave_gyro to (-roll, -pitch, 0), wave_heave to -velocity_ef.z
\* and wave_phase to 0, and leaves every other field of the instance as it was.
C2_DisabledPathResets ==
    (call.fn = "update_wave" /\ DisabledPath) =>
        boats[1] = [call.pre EXCEPT
                       !.wave_gyro  = Vec(-call.pre.dcm.roll, -call.pre.dcm.pitch, 0),
                       !.wave_heave = -call.pre.velocity_ef.z,
                       !.wave_phase = 0]

\* a disarmed call with waves switched on, a heeled and pitched boat that moves
\* vertically and a phase left by an earlier call
C2_Witness ==
    /\ call.fn = "update_wave"
    /\ ~call.armed
    /\ call.wave.enable # 0
    /\ call.wave.amp # 0
    /\ call.pre.wave_phase # 0
    /\ call.pre.dcm.roll # 0
    /\ call.pre.dcm.pitch # 0
    /\ call.pre.velocity_ef.z # 0
    /\ boats[1].wave_phase = 0

\* C3: two runs that start from the same state and are given the same inputs,
\* armed state and parameters at every step have equal position, attitude and
\* velocity after every step.
C3_Deterministic ==
    (trace[1] = trace[2]) =>
        /\ boats[1].position = boats[2].position
        /\ boats[1].dcm = boats[2].dcm
        /\ boats[1].velocity_ef = boats[2].velocity_ef
        /\ boats[1].velocity_ef_water = boats[2].velocity_ef_water
        /\ boats[1].gyro = boats[2].gyro

\* three steps each, armed, the boat under way, and the shared timers made
\* one run print where the other did not
C3_Witness ==
    /\ nsteps = 3
    /\ call.fn = "update"
    /\ Len(trace[1]) = 3
    /\ trace[1] = trace[2]
    /\ \A k \in 1..3 : trace[1][k][2]
    /\ boats[1].position # VZero
    /\ boats[1].dcm.roll # 0
    /\ call.printed # call.printed_first

\* C4: a time step of one instance reads and writes no state that a time step
\* of another instance reads or writes: what update() of an instance does is
\* the same before and after a step of another instance.
C4_InstancesIsolated ==
    [][\A j \in Instances :
          (nsteps' = nsteps + 1 /\ call'.self # j) =>
              \A input \in Inputs :
                  update(variant, boats[j], sitl, armed, input,
                         update_time_s, last_print_time_s)
                  = update(variant', boats'[j], sitl', armed', input,
                           update_time_s', last_print_time_s')]_vars

\* C5: get_turn_circle(0) is 0, get_yaw_rate(0, speed) is 0 for every speed and
\* get_yaw_rate(steering, 0) is 0 for every steering, each returned before any
\* division is evaluated.
C5_ZeroInputsReturnZero ==
    /\ (call.fn = "get_turn_circle" /\ call.steering = 0) =>
           (call.result.ret = 0 /\ call.result.divs = <<>>)
    /\ (call.fn = "get_yaw_rate" /\ (call.steering = 0 \/ call.speed = 0)) =>
           (call.result.ret = 0 /\ call.result.divs = <<>>)

\* get_yaw_rate with a rudder deflection and no speed
C5_Witness ==
    /\ call.fn = "get_yaw_rate"
    /\ call.steering # 0
    /\ call.speed = 0
    /\ call.result.ret = 0

\* C6: while the vehicle is not armed get_heel_angular_acceleration returns 0
\* for every heel force, roll angle and roll rate.
C6_DisarmedHeelZero ==
    (call.fn = "get_heel_angular_acceleration" /\ ~call.armed) => call.result = 0

\* a disarmed call whose moments do not cancel
C6_Witness ==
    /\ call.fn = "get_heel_angular_acceleration"
    /\ ~call.armed
    /\ call.force_heel # 0
    /\ call.roll # 0
    /\ call.rate # 0
    /\ heel_moments(call.force_heel, call.roll, call.rate) # 0

\* C7: for a sheet-trimmed mainsail, an apparent wind direction w in
\* [-180, 180] and a sail angle s in [0, 90], the angle of attack has the
\* magnitude max(|w| - s, 0), is 0 when s >= |w| and never has the sign
\* opposite to that of w.
C7_SheetAoa ==
    (call.fn = "aoa_deg" /\ call.sail_type = mainsail_with_sheet) =>
        /\ Abs(call.result)
             = (IF Abs(call.wind) > call.sail THEN Abs(call.wind) - call.sail ELSE 0)
        /\ (call.sail >= Abs(call.wind)) => call.result = 0
        /\ (call.wind > 0) => call.result >= 0
        /\ (call.wind < 0) => call.result <= 0

\* the sail let out further than the wind from port is off the bow
C7_Witness ==
    /\ call.fn = "aoa_deg"
    /\ call.sail_type = mainsail_with_sheet
    /\ call.wind < 0
    /\ call.sail > Abs(call.wind)
    /\ call.result = 0

\* C8: the sail angle is the linear map of the servo output, clamped: 0 to 90
\* degrees over 1000 to 2000 of servo 3 for the mainsail, -90 to 90 degrees
\* over 1000 to 2000 of servo 4 for the wing, for every servo value.
C8_SailAngleClamped ==
    (call.fn = "sail_angle_bf") =>
        IF call.sail_type = mainsail_with_sheet
        THEN /\ call.result >= 0
             /\ call.result <= 90000
             /\ call.result = (IF call.servo <= 1000 THEN 0
                               ELSE IF call.servo >= 2000 THEN 90000
                               ELSE (call.servo - 1000) * 90)
        ELSE /\ call.result >= -90000
             /\ call.result <= 90000
             /\ call.result = (IF call.servo <= 1000 THEN -90000
                               ELSE IF call.servo >= 2000 THEN 90000
                               ELSE (call.servo - 1500) * 180)

\* a servo output far above the range, for the mainsail
C8_Witness ==
    /\ call.fn = "sail_angle_bf"
    /\ call.sail_type = mainsail_with_sheet
    /\ call.servo = 65535
    /\ call.result = 90000

\* C9: calc_lift_and_drag wraps the angle of attack into [-180, 180], looks
\* both coefficients up at the absolute value of the wrapped angle, which is
\* in [0, 180], and gives the lift the sign of the wrapped angle.
C9_AoaWrapped ==
    (call.fn = "calc_lift_and_drag") =>
        /\ call.result.signed_aoa_deg >= -180000
        /\ call.result.signed_aoa_deg <= 180000
        /\ (call.result.signed_aoa_deg - call.angle) % 360000 = 0
        /\ call.result.abs_aoa_deg = Abs(call.result.signed_aoa_deg)
        /\ call.result.abs_aoa_deg >= 0
        /\ call.result.abs_aoa_deg <= 180000
        /\ call.result.cl = cl_lookup(call.result.abs_aoa_deg)
        /\ call.result.cd = cd_lookup(call.result.abs_aoa_deg)
        /\ call.result.lift
             = FMul(call.result.cl, call.result.common_coefficient)
               * (IF call.result.signed_aoa_deg > 0 THEN 1
                  ELSE IF call.result.signed_aoa_deg < 0 THEN -1 ELSE 0)

\* 270 degrees, which wraps to -90 degrees, in a wind
C9_Witness ==
    /\ call.fn = "calc_lift_and_drag"
    /\ call.angle = 270000
    /\ call.wind_speed # 0
    /\ call.result.signed_aoa_deg = -90000
    /\ call.result.abs_aoa_deg = 90000

\* the breakpoints x0 <= x <= x1 of a curve have y between them on the line
\* through the two points, up to the rounding of the last digit
OnSegment(table, x, y) ==
    \A i \in 1..(Len(table) - 1) :
        (table[i][1] <= x /\ x <= table[i + 1][1]) =>
            Abs((y - table[i][2]) * (table[i + 1][1] - table[i][1])
                - (table[i + 1][2] - table[i][2]) * (x - table[i][1]))
              < table[i + 1][1] - table[i][1]

\* C10: the lookup returns the value of the last breakpoint for every angle at
\* or above 170 degrees (cl -0.5, cd 0.1) and interpolates linearly between the
\* two bracketing breakpoints for every angle between breakpoints.
C10_LookupClampsAndInterpolates ==
    (call.fn = "calc_lift_and_drag") =>
        /\ (call.result.abs_aoa_deg >= 170000) =>
               (call.result.cl = -500 /\ call.result.cd = 100)
        /\ OnSegment(CL_curve, call.result.abs_aoa_deg, call.result.cl)
        /\ OnSegment(CD_curve, call.result.abs_aoa_deg, call.result.cd)

\* 175 degrees, beyond the last breakpoint
C10_Witness ==
    /\ call.fn = "calc_lift_and_drag"
    /\ call.angle = 175000
    /\ call.result.cl = -500
    /\ call.result.cd = 100

\* C11: with an apparent wind speed of 0 calc_lift_and_drag returns lift 0 and
\* drag 0 for every angle of attack and either sail area, and the forward and
\* the heel force of the step are 0.
C11_CalmNoForce ==
    (call.fn = "update" /\ call.sail.wind_apparent_speed = 0) =>
        /\ call.sail.lift_wf = 0
        /\ call.sail.drag_wf = 0
        /\ call.sail.force_fwd = 0
        /\ call.sail.force_heel = 0
        /\ \A a \in AoaValues :
               /\ calc_lift_and_drag(variant, 0, a).lift = 0
               /\ calc_lift_and_drag(variant, 0, a).drag = 0

\* a step in a calm with the boat at rest and the sail sheeted in part
C11_Witness ==
    /\ call.fn = "update"
    /\ call.input.wind.speed = 0
    /\ call.pre.velocity_ef = VZero
    /\ call.sail.wind_apparent_speed = 0
    /\ call.sail.mainsail_angle_bf # 0
    /\ call.sail.force_fwd = 0

\* C12: for every wind speed v and angle of attack a, calc_lift_and_drag
\* returns drag = cd(|a|) * k and lift = cl(|a|) * k * sign(a), with
\* k = 1/2 * 1.225 * v^2 * sail_area.
C12_LiftDragEquation ==
    (call.fn = "calc_lift_and_drag") =>
        /\ call.result.common_coefficient
             = FMul(FMul(FMul(FDiv(1000, 2000), 1225), sq(call.wind_speed)),
                    sail_area(variant))
        /\ call.result.drag
             = FMul(cd_lookup(Abs(wrap_180(call.angle))), call.result.common_coefficient)
        /\ call.result.lift
             = FMul(cl_lookup(Abs(wrap_180(call.angle))), call.result.common_coefficient)
               * signum(wrap_180(call.angle))

\* what the second run holds before the call where the first holds call.pre:
\* another wave phase, wave_gyro and wave_heave, everything else the same
OtherRunBefore ==
    { [call.pre EXCEPT !.wave_phase = ph, !.wave_gyro = g, !.wave_heave = h]
      : ph \in {0, 1000, 5000}, g \in {VZero, Vec(300, -200, 0)}, h \in {0, 700} }

\* C13: two runs that differ only in the wave phase, wave_gyro and wave_heave
\* held before a call of update_wave with waves off or a zero amplitude have
\* the same wave_gyro after it, which is (-roll, -pitch, 0).
C13_GyroIndependentOfPhase ==
    (call.fn = "update_wave" /\ (call.wave.enable = 0 \/ call.wave.amp = 0)) =>
        /\ \A other \in OtherRunBefore :
               update_wave(other, [sitl EXCEPT !.wave = call.wave], call.armed,
                           call.delta_time).wave_gyro
               = boats[1].wave_gyro
        /\ boats[1].wave_gyro = Vec(-call.pre.dcm.roll, -call.pre.dcm.pitch, 0)

\* an armed call with a zero amplitude on a heeled boat, after a call that
\* left a phase and a wave_gyro of its own
C13_Witness ==
    /\ call.fn = "update_wave"
    /\ call.armed
    /\ call.wave.enable # 0
    /\ call.wave.amp = 0
    /\ call.pre.wave_phase # 0
    /\ call.pre.wave_gyro # VZero
    /\ call.pre.dcm.roll # 0
    /\ boats[1].wave_gyro # call.pre.wave_gyro

\* C14: with a sail type selector that is neither mainsail_with_sheet nor
\* directly_actuated_wing, the assertion stops every step: no step computes a
\* sail angle, an angle of attack or sail forces, and none integrates the state.
C14_UnknownSailTypeCaught ==
    (sitl.sail_type # mainsail_with_sheet /\ sitl.sail_type # directly_actuated_wing) =>
        /\ call.fn # "update"
        /\ nsteps = 0
        /\ \A i \in Instances : boats[i].time_now_us = 0 /\ boats[i].position = VZero

BeforeUpdateWave ==
    [boats[1] EXCEPT !.wave_gyro = call.pre.wave_gyro,
                     !.wave_heave = call.pre.wave_heave,
                     !.wave_phase = call.pre.wave_phase]

\* C16: update_wave is the last call of a step, made on the attitude, velocity
\* and position the step has integrated and after update_position,
\* time_advance and update_mag_field_bf; the wave_gyro and wave_heave a step
\* consumes are those the step before left, and the initial ones in step 1.
C16_WaveUpdatedLast ==
    (call.fn = "update") =>
        /\ boats[1] = update_wave(BeforeUpdateWave, sitl, call.armed,
                                  call.locals.delta_time)
        /\ boats[1].location = boats[1].position
        /\ boats[1].time_now_us = call.pre.time_now_us + call.pre.frame_time_us
        /\ boats[1].mag_bf = update_mag_field_bf(boats[1]).mag_bf
        /\ call.locals.gyro
             = VAdd(Vec(call.locals.roll_rate, 0, radians(call.locals.yaw_rate)),
                    call.pre.wave_gyro)
        /\ call.locals.accel_earth.z = call.pre.wave_heave
        /\ (nsteps = 1) => (call.pre.wave_gyro = VZero /\ call.pre.wave_heave = 0)

\* a third step, armed in waves: it consumed what the second step left and
\* left a wave_gyro and a wave_heave of its own
C16_Witness ==
    /\ call.fn = "update"
    /\ nsteps = 3
    /\ call.armed
    /\ sitl.wave.enable = 2
    /\ call.pre.wave_gyro # VZero
    /\ call.pre.wave_heave # 0
    /\ boats[1].wave_gyro # call.pre.wave_gyro
    /\ boats[1].wave_heave # call.pre.wave_heave
    /\ boats[1].dcm # call.pre.dcm
    /\ boats[1].velocity_ef # call.pre.velocity_ef

\* C17: in the version that integrates the heel torque, the roll_rate of a
\* step is the roll_rate of the step before adjusted by the heel angular
\* acceleration times delta_time; the wave gyro roll term is added to the
\* angular rate of its own step only and is not carried into the roll_rate of
\* the next.
C17_WaveRollNotCarried ==
    (variant = "torque" /\ call.fn = "update" /\ call.prev # <<>>) =>
        /\ call.locals.gyro
             = VAdd(Vec(call.locals.roll_rate, 0, radians(call.locals.yaw_rate)),
                    call.pre.wave_gyro)
        /\ call.locals.roll_rate
             = attitude_torque([call.pre EXCEPT !.gyro.x = call.prev[1].roll_rate],
                               call.armed, call.sail.force_heel, call.locals.yaw_rate,
                               call.locals.delta_time).roll_rate

\* the tide velocity of the last step: against the tide direction when armed
\* with a tide speed other than 0, the zero vector otherwise
TideOfStep ==
    IF call.armed /\ sitl.tide.speed # 0
    THEN Vec(FMul(-cosf(radians(sitl.tide.direction)), sitl.tide.speed),
             FMul(-sinf(radians(sitl.tide.direction)), sitl.tide.speed),
             0)
    ELSE VZero

\* C18: after every step velocity_ef = velocity_ef_water + tide; the tide is
\* not added into velocity_ef_water, which moves by the acceleration times
\* delta_time alone, and velocity_ef = velocity_ef_water whenever the vehicle
\* is disarmed or the tide speed is 0.
C18_TideNotAccumulated ==
    (call.fn = "update") =>
        /\ boats[1].velocity_ef = VAdd(boats[1].velocity_ef_water, TideOfStep)
        /\ boats[1].velocity_ef_water
             = VAdd(call.pre.velocity_ef_water,
                    VScale(call.locals.accel_earth, call.locals.delta_time))
        /\ (~call.armed \/ sitl.tide.speed = 0) =>
               boats[1].velocity_ef = boats[1].velocity_ef_water

\* the third step of a boat that has been in the tide, armed, for two steps
C18_Witness ==
    /\ call.fn = "update"
    /\ nsteps = 3
    /\ call.armed
    /\ sitl.tide.speed # 0
    /\ call.pre.velocity_ef # call.pre.velocity_ef_water
    /\ boats[1].velocity_ef # boats[1].velocity_ef_water
    /\ call.locals.accel_earth # VZero

\* C19: the vertical acceleration in the earth frame a step integrates is the
\* wave_heave, whatever the sail force, hull drag, throttle and steering are:
\* velocity_ef_water.z moves by wave_heave * delta_time and by nothing else;
\* with waves switched off and no vertical velocity, the vertical velocity and
\* the vertical position never change.
C19_VerticalIsHeave ==
    /\ (call.fn = "update") =>
           /\ call.locals.accel_earth.z = call.pre.wave_heave
           /\ boats[1].velocity_ef_water.z
                = call.pre.velocity_ef_water.z
                  + FMul(call.pre.wave_heave, call.locals.delta_time)
    /\ (sitl.wave.enable = 0) =>
           \A i \in Instances :
               /\ boats[i].velocity_ef_water.z = 0
               /\ boats[i].velocity_ef.z = 0
               /\ boats[i].position.z = 0
               /\ boats[i].wave_heave = 0

\* an armed step in waves with a heave, a sail force, a hull drag and a
\* rudder deflection
C19_Witness ==
    /\ call.fn = "update"
    /\ call.armed
    /\ call.pre.wave_heave # 0
    /\ call.sail.force_fwd # 0
    /\ call.locals.speed # 0
    /\ call.locals.yaw_rate # 0
    /\ call.locals.accel_earth.x # 0
    /\ boats[1].velocity_ef_water.z # call.pre.velocity_ef_water.z

\* C20: within a step the velocity is integrated before the position: the
\* position after the step is the position before plus delta_time times the
\* velocity_ef after the step, which holds the acceleration and the tide of
\* this step.
C20_VelocityBeforePosition ==
    (call.fn = "update") =>
        /\ boats[1].velocity_ef
             = VAdd(VAdd(call.pre.velocity_ef_water,
                         VScale(call.locals.accel_earth, call.locals.delta_time)),
                    call.locals.tide_velocity_ef)
        /\ boats[1].position
             = VAdd(call.pre.position,
                    VScale(boats[1].velocity_ef, call.locals.delta_time))

\* a step of a moving boat, armed in a tide, that changed the velocity: the
\* velocity before the step would have led to another position
C20_Witness ==
    /\ call.fn = "update"
    /\ nsteps >= 2
    /\ call.armed
    /\ call.locals.tide_velocity_ef # VZero
    /\ call.pre.velocity_ef # VZero
    /\ call.locals.accel_earth # VZero
    /\ boats[1].position
         # VAdd(call.pre.position, VScale(call.pre.velocity_ef, call.locals.delta_time))

\* C21: update_wave leaves the yaw component of wave_gyro at zero on both of
\* its paths, so the yaw component of the angular rate of a step is
\* radians(get_yaw_rate(steering, speed)), and is zero when the steering or
\* the forward speed is zero
C21_WaveYawZero ==
    call.fn = "update" =>
        /\ boats[1].wave_gyro.z = 0
        /\ call.pre.wave_gyro.z = 0
        /\ call.locals.gyro.z
               = radians(get_yaw_rate(call.sail.steering, call.locals.speed).ret)
        /\ (is_zero(call.sail.steering) \/ is_zero(call.locals.speed))
               => call.locals.gyro.z = 0

\* a step that turns, with a roll rate left by the update_wave of the step
\* before it, and whose own update_wave moved the wave on
C21_Witness ==
    /\ call.fn = "update"
    /\ call.prev # <<>>
    /\ call.locals.gyro.z # 0
    /\ call.pre.wave_gyro.x # 0
    /\ boats[1].wave_phase # 0

\* C22: the step resolves lift and drag by the apparent wind angle theta of
\* the body frame as forward = lift * sin(theta) - drag * cos(theta) and
\* heel = lift * cos(theta) + drag * sin(theta), the drag contributing to the
\* heel force as the lift does
C22_ForcesResolved ==
    call.fn = "update" =>
        \E theta \in {radians(call.sail.wind_apparent_dir_bf)} :
            /\ call.sail.force_fwd = FMul(call.sail.lift_wf, sinf(theta))
                                     - FMul(call.sail.drag_wf, cosf(theta))
            /\ call.sail.force_heel = FMul(call.sail.lift_wf, cosf(theta))
                                      + FMul(call.sail.drag_wf, sinf(theta))

\* C23: in the first version, armed, with no heel force and no roll rate
\* carried over, the roll rate of the step is negative for a roll angle in
\* (0, 90 deg) and positive for a roll angle in (-90 deg, 0): the righting
\* moment turns the boat towards upright
C23_RightingTowardsUpright ==
    (/\ call.fn = "attitude_step"
     /\ variant = "torque"
     /\ call.armed
     /\ call.force_heel = 0
     /\ call.rate = 0) =>
        /\ (0 < call.roll /\ call.roll < M_PI_2) => call.result.roll_rate < 0
        /\ (-M_PI_2 < call.roll /\ call.roll < 0) => call.result.roll_rate > 0

\* a divisor of the divisions of a call, as recorded, is zero
ZeroDivisor(divs) == \E i \in 1..Len(divs) : divs[i] = 0

MountsCreated(m) == { i \in MountInstances : m._backends[i] # nullptr }

\* C25: handle_command_long returns MAV_RESULT_UNSUPPORTED for a command
\* other than DO_MOUNT_CONFIGURE, DO_MOUNT_CONTROL and
\* DO_GIMBAL_MANAGER_PITCHYAW, and for each of these three it returns
\* MAV_RESULT_FAILED and calls no backend when _primary is out of range or
\* has no backend
C25_CommandsGuarded ==
    call.fn = "handle_command_long" =>
        IF call.packet.command \in {"MAV_CMD_DO_MOUNT_CONFIGURE", "MAV_CMD_DO_MOUNT_CONTROL",
                                    "MAV_CMD_DO_GIMBAL_MANAGER_PITCHYAW"}
        THEN (\/ call.pre._primary >= AP_MOUNT_MAX_INSTANCES
              \/ call.pre._backends[call.pre._primary] = nullptr)
                 => (call.ret = "MAV_RESULT_FAILED" /\ call.log = <<>>)
        ELSE call.ret = "MAV_RESULT_UNSUPPORTED" /\ call.log = <<>>

\* DO_MOUNT_CONFIGURE arriving after init(), for a first instance whose type
\* is set but which has no backend: the command fails
C25_Witness ==
    /\ call.fn = "handle_command_long"
    /\ call.packet.command = "MAV_CMD_DO_MOUNT_CONFIGURE"
    /\ mount_inits > 0
    /\ mount._backends[0] = nullptr
    /\ mount._params[0].type # "Mount_Type_None"
    /\ call.ret = "MAV_RESULT_FAILED"

\* the least instance of a set of instances
LowestInstance(S) == CHOOSE i \in S : \A j \in S : i <= j

\* C26: after init(), if a backend exists, _primary is the lowest instance
\* that has a backend and _num_instances is the number of backends; and a
\* backend is initialised and set to its default mode only after every
\* instance of the call has been created
C26_InitPrimaryAndOrder ==
    call.fn = "init" =>
        /\ MountsCreated(mount) # {} =>
               /\ mount._primary = LowestInstance(MountsCreated(mount))
               /\ mount._num_instances = Cardinality(MountsCreated(mount))
        /\ \A j, k \in 1..Len(call.log) :
               (call.log[j][1] = "new" /\ call.log[k][1] # "new") => j < k
        /\ \A j \in 1..Len(call.log) :
               call.log[j][1] = "new" =>
                   \E k, l \in 1..Len(call.log) :
                       /\ k < l
                       /\ call.log[k] = <<"init", call.log[j][2]>>
                       /\ call.log[l] = <<"set_mode", call.log[j][2],
                                          mount._params[call.log[j][2]].default_mode>>

\* an init() that created a backend for each of the two instances, and
\* initialised both after that
C26_Witness ==
    /\ call.fn = "init"
    /\ Len(call.log) = 6
    /\ Cardinality(MountsCreated(mount)) = 2
    /\ mount._primary = 0

\* C27: only the first call of init() detects and initialises mounts; a
\* later call creates no backend, leaves _backends, _num_instances and
\* _primary as they are and calls init or set_mode on no backend, whatever
\* the type parameters are by then
C27_OnlyFirstInitDetects ==
    (call.fn = "init" /\ call.inits_before > 0) =>
        /\ mount._backends = call.pre._backends
        /\ mount._num_instances = call.pre._num_instances
        /\ mount._primary = call.pre._primary
        /\ call.log = <<>>

\* the C string a buffer holds: the characters before the first NUL, and
\* no string at all when the buffer holds no NUL
CString(buf) ==
    IF \E i \in 1..Len(buf) : buf[i] = NUL
    THEN SubSeq(buf, 1, (CHOOSE i \in 1..Len(buf) :
                            buf[i] = NUL /\ \A j \in 1..(i - 1) : buf[j] # NUL) - 1)
    ELSE <<"unterminated">>

\* an instance has a type parameter other than none and no backend
TypeWithoutBackend(m) ==
    \E i \in MountInstances : m._params[i].type # "Mount_Type_None" /\ m._backends[i] = nullptr

\* a backend exists that answers not healthy
BackendUnhealthy(m, healthy) ==
    \E i \in MountInstances : m._backends[i] # nullptr /\ ~healthy[i]

FilledWith(msg) ==
    /\ Len(call.failure_msg) = call.failure_msg_len
    /\ \A i \in 1..call.failure_msg_len :
           call.failure_msg[i] = IF i <= Len(msg) THEN msg[i] ELSE NUL
    /\ call.failure_msg_len > Len(msg) => CString(call.failure_msg) = msg

=============================================================================
